---- MODULE Spec2Model ----
(***************************************************************************)
(* State-machine model of the MQTT bridge of src/src/mqttBridge.js (the    *)
(* revision at lines 236-511): the connection pool and subscription        *)
(* synchronizer (refreshBridgeProjects), and the async 'message' handler   *)
(* with its deadband filter, alert engine and push dispatch.               *)
(*                                                                         *)
(* Levels are integers in units of 0.5 mm (1.0 m = 2000), times are        *)
(* integers in milliseconds.  A JS Map is a function whose DOMAIN is the   *)
(* set of keys present; a JS Set iterated in insertion order is a          *)
(* duplicate-free sequence.                                                *)
(***************************************************************************)
EXTENDS Integers, Sequences, FiniteSets, TLC

VARIABLES
    projects,          \* db.collection('projects'): id -> configuration document
    mirror,            \* the lastAlertState/lastAlertAt fields of those documents
    devices,           \* db.collection('devices'): set of {token, projectId, userId}
    readings,          \* db.collection('readings'): id -> the last two inserted documents
    fcmEnabled,        \* fcm.js `initialized`
    clients,           \* Map key -> connection entry (by handle)
    entries,           \* handle -> {key, ended, connected, topicToProjects, ...}
    currentSubs,       \* Map projectId -> subscription settings
    lastAlertState,    \* Map projectId -> {lastState, lastTs}
    lastStoredReading, \* Map projectId -> {value, ts}
    emitted,           \* per project, the last two multicast sends (alert pushes)
    clock,             \* seconds elapsed since process start
    refreshers,        \* in-flight refreshBridgeProjects calls
    handlers,          \* in-flight 'message' handler invocations
    scenario,          \* observer: readings of Scenario A processed in order (-1: departed)
    bridge             \* startBridge: bridgeRunning, the armed timers, the calls in progress

vars == <<projects, mirror, devices, readings, fcmEnabled, clients, entries,
          currentSubs, lastAlertState, lastStoredReading, emitted, clock,
          refreshers, handlers, scenario, bridge>>

-----------------------------------------------------------------------------
(* Bounds of the model                                                     *)

MaxClock == 1        \* the clock advances at most this many seconds
EpochSec == 1        \* Date.now() at process start, in seconds
MaxHandles == 2      \* mqtt.connect is called at most this many times
MaxPending == 2      \* pending subscribe callbacks counted per topic saturate here

EntitySeq == <<"e1", "e2">>
Entities == {EntitySeq[i] : i \in 1..Len(EntitySeq)}
Topics == {"t1", "t2"}
Handlers == {"h1", "h2"}
Refreshers == {"r1", "r2"}

-----------------------------------------------------------------------------
(* JS values                                                               *)

Null == -1           \* null / undefined / non-numeric in a numeric field

EmptyMap == [x \in {} |-> Null]
MapHas(m, k) == k \in DOMAIN m
MapSet(m, k, v) == [x \in (DOMAIN m) \cup {k} |-> IF x = k THEN v ELSE m[x]]
MapDelete(m, k) == [x \in (DOMAIN m) \ {k} |-> m[x]]

AddToSetAlways(seq, x) == Append(seq, x)

\* Set.prototype.add on a Set kept in insertion order
AddToSet(seq, x) ==
    IF \E j \in 1..Len(seq) : seq[j] = x THEN seq ELSE Append(seq, x)

Abs(x) == IF x < 0 THEN -x ELSE x
Max(a, b) == IF a >= b THEN a ELSE b

DateNow == (EpochSec + clock) * 1000

-----------------------------------------------------------------------------
(* Process configuration (environment)                                     *)

globalHysteresis == 0
globalNoiseDeadband == 6
notifyUpdates == FALSE
MQTT_URL == ""
MQTT_USERNAME == ""

-----------------------------------------------------------------------------
(* Reading filter                                                          *)

parseNumberFromPayloadOrZero(payload, opts) ==
    LET n == IF payload = Null THEN 0 ELSE payload
        v1 == IF opts.multiplier # Null THEN n * opts.multiplier ELSE n
    IN  IF opts.offset # Null THEN v1 + opts.offset ELSE v1

\* A payload is modelled by the first numeric literal it holds, or Null when
\* the regular expression finds none.
parseNumberFromPayload(payload, opts) ==
    IF payload = Null THEN Null
    ELSE LET v1 == IF opts.multiplier # Null THEN payload * opts.multiplier ELSE payload
             v2 == IF opts.offset # Null THEN v1 + opts.offset ELSE v1
         IN  v2

EffectiveDeadband(subCfg) ==
    IF subCfg.noiseDeadbandMeters # Null THEN subCfg.noiseDeadbandMeters
    ELSE globalNoiseDeadband

\* let storeThis = ...; if (storeThis && prevStored) { if (diff < deadband) storeThis = false }
DeadbandStoreInclusive(subCfg, stored, pid, v) ==
    IF subCfg.storeHistory /\ MapHas(stored, pid)
    THEN ~(Abs(stored[pid].value - v) <= EffectiveDeadband(subCfg))
    ELSE subCfg.storeHistory

DeadbandStore(subCfg, stored, pid, v) ==
    IF subCfg.storeHistory /\ MapHas(stored, pid)
    THEN ~(Abs(stored[pid].value - v) < EffectiveDeadband(subCfg))
    ELSE subCfg.storeHistory

-----------------------------------------------------------------------------
(* Alert engine                                                            *)

EffectiveHysteresis(subCfg) ==
    IF subCfg.alertHysteresisMeters # Null THEN subCfg.alertHysteresisMeters
    ELSE globalHysteresis

PrevAlert(las, pid) ==
    IF MapHas(las, pid) THEN las[pid] ELSE [lastState |-> "normal", lastTs |-> 0]

EvalAlertStateNoLatch(prevState, v, low, high, hysteresis) ==
    IF low # Null /\ v < low THEN "low"
    ELSE IF high # Null /\ v > high THEN "high"
    ELSE "normal"

EvalAlertStateClosedBand(prevState, v, low, high, hysteresis) ==
    LET latched ==
            IF prevState = "low" /\ low # Null /\ v <= low + hysteresis THEN "low"
            ELSE IF prevState = "high" /\ high # Null /\ v >= high - hysteresis THEN "high"
            ELSE "normal"
    IN  IF latched # "normal" THEN latched
        ELSE IF low # Null /\ v < low THEN "low"
        ELSE IF high # Null /\ v > high THEN "high"
        ELSE "normal"

EvalAlertState(prevState, v, low, high, hysteresis) ==
    LET latched ==
            IF prevState = "low"
            THEN IF low # Null
                 THEN IF v < low THEN "low"
                      ELSE IF hysteresis > 0 /\ v < low + hysteresis THEN "low"
                      ELSE "normal"
                 ELSE "normal"
            ELSE IF prevState = "high"
            THEN IF high # Null
                 THEN IF v > high THEN "high"
                      ELSE IF hysteresis > 0 /\ v > high - hysteresis THEN "high"
                      ELSE "normal"
                 ELSE "normal"
            ELSE "normal"
    IN  IF latched = "normal"
        THEN IF low # Null /\ v < low THEN "low"
             ELSE IF high # Null /\ v > high THEN "high"
             ELSE "normal"
        ELSE latched

CooldownMs(subCfg) ==
    Max(0, (IF subCfg.alertCooldownSec = Null THEN 0 ELSE subCfg.alertCooldownSec) * 1000)

CooledDownAlways(nowMs, prevTs, subCfg) == TRUE

CooledDown(nowMs, prevTs, subCfg) == (nowMs - prevTs) >= CooldownMs(subCfg)

CrossedIntoAlert(prevState, state) ==
    prevState = "normal" /\ state \in {"low", "high"}

Recovered(prevState, state) ==
    prevState # "normal" /\ state = "normal"

ShouldNotifyAnyRecovery(prevState, state, cooledDown, subCfg) ==
    \/ CrossedIntoAlert(prevState, state) /\ cooledDown
    \/ Recovered(prevState, state) /\ cooledDown

ShouldNotify(prevState, state, cooledDown, subCfg) ==
    \/ CrossedIntoAlert(prevState, state) /\ cooledDown
    \/ Recovered(prevState, state) /\ subCfg.notifyOnRecover /\ cooledDown

ShouldRecordAlways(prevState, state, cooledDown) ==
    state # prevState

ShouldRecordAnyChange(prevState, state, cooledDown) == prevState # state

ShouldRecord(prevState, state, cooledDown) ==
    \/ CrossedIntoAlert(prevState, state) /\ cooledDown
    \/ Recovered(prevState, state)

-----------------------------------------------------------------------------
(* The 'message' handler: c.on('message', async (topic, msg) => ...)      *)
(*                                                                         *)
(* A handler invocation runs without interruption from one await to the    *)
(* next.  Each operator below is one such synchronous stretch and yields   *)
(* the handler's next position and the lastAlertState map it leaves.       *)

IdleHandler == [pc |-> "idle"]

\* no sendToTokens result yet
NoSend == [ok |-> FALSE, called |-> FALSE, threw |-> FALSE, transport |-> "none", responses |-> << >>]

Active(h) == handlers[h].pc # "idle"

\* topicToProjects.get(topic) of the connection whose closure the handler is
TopicProjects(c, topic) ==
    IF MapHas(entries[c].topicToProjects, topic)
    THEN entries[c].topicToProjects[topic]
    ELSE << >>

RECURSIVE LoopFrom(_, _)

\* if (notifyUpdates && isFcmEnabled()) {...}  then the next projectId
AfterStore(loc, las) ==
    LoopFrom([loc EXCEPT !.idx = @ + 1], las)

AfterAlertAlwaysStores(loc, las) ==
    [h |-> [loc EXCEPT !.pc = "insert"], las |-> las]

\* if (storeThis && subCfg.storeHistory) { await insertOne(...) ... }
AfterAlert(loc, las) ==
    IF loc.storeThis /\ loc.subCfg.storeHistory
    THEN [h |-> [loc EXCEPT !.pc = "insert"], las |-> las]
    ELSE AfterStore(loc, las)

AfterNotifyWhenDelivered(loc, las) ==
    IF loc.sendRes.ok /\ ShouldRecord(loc.prev.lastState, loc.state,
                                      CooledDown(loc.nowMs, loc.prev.lastTs, loc.subCfg))
    THEN [h   |-> [loc EXCEPT !.pc = "writeback"],
          las |-> MapSet(las, loc.pid, [lastState |-> loc.state, lastTs |-> loc.nowMs])]
    ELSE AfterAlert(loc, las)

\* if ((crossedIntoAlert && cooledDown) || recovered) { lastAlertState.set(...); await updateOne(...) ... }
AfterNotify(loc, las) ==
    IF ShouldRecord(loc.prev.lastState, loc.state,
                    CooledDown(loc.nowMs, loc.prev.lastTs, loc.subCfg))
    THEN [h   |-> [loc EXCEPT !.pc = "writeback"],
          las |-> MapSet(las, loc.pid, [lastState |-> loc.state, lastTs |-> loc.nowMs])]
    ELSE AfterAlert(loc, las)

\* The alert block up to its first await.
AlertBlock(loc, las) ==
    LET subCfg == loc.subCfg
        prev   == PrevAlert(las, loc.pid)
        state  == EvalAlertState(prev.lastState, loc.v, subCfg.alertLow,
                                 subCfg.alertHigh, EffectiveHysteresis(subCfg))
        nowMs  == DateNow
        cooled == CooledDown(nowMs, prev.lastTs, subCfg)
        loc2   == [loc EXCEPT !.prev = prev, !.state = state, !.nowMs = nowMs]
    IN  IF ShouldNotify(prev.lastState, state, cooled, subCfg) /\ fcmEnabled
        THEN [h |-> [loc2 EXCEPT !.pc = "find"], las |-> las]
        ELSE AfterNotify(loc2, las)

\* for (const projectId of projectIds) { ... } from position loc.idx on
LoopFrom(loc, las) ==
    LET projectIds == TopicProjects(loc.conn, loc.topic)
    IN  IF loc.idx > Len(projectIds) THEN [h |-> IdleHandler, las |-> las]
        ELSE LET projectId == projectIds[loc.idx]
             IN  IF ~MapHas(currentSubs, projectId) THEN AfterStore(loc, las)
                 ELSE LET subCfg == currentSubs[projectId]
                          v == parseNumberFromPayload(loc.raw, subCfg)
                      IN  IF v = Null THEN AfterStore(loc, las)
                          ELSE LET loc2 == [loc EXCEPT
                                            !.pid = projectId, !.subCfg = subCfg, !.v = v,
                                            !.storeThis = DeadbandStore(subCfg, lastStoredReading, projectId, v),
                                            !.prev = [lastState |-> "normal", lastTs |-> 0],
                                            !.state = "normal", !.nowMs = DateNow,
                                            !.deadbandStore = DeadbandStore(subCfg, lastStoredReading, projectId, v),
                                            !.lookup = "none", !.tokens = << >>,
                                            !.invalid = << >>, !.sendRes = NoSend,
                                            !.written = FALSE]
                               IN  IF subCfg.alertsEnabled THEN AlertBlock(loc2, las)
                                   ELSE AfterAlert(loc2, las)

\* observer: the projectIds of the topic and their currentSubs entries at the
\* moment the message arrives
ViewAt(c, topic) ==
    IF c \notin DOMAIN entries THEN << >>
    ELSE LET ids == TopicProjects(c, topic)
         IN  [i \in 1..Len(ids) |->
                [pid |-> ids[i], known |-> MapHas(currentSubs, ids[i]),
                 subCfg |-> IF MapHas(currentSubs, ids[i]) THEN currentSubs[ids[i]] ELSE Null]]

NewInvocation(c, topic, raw) ==
    [pc |-> "start", conn |-> c, topic |-> topic, raw |-> raw, idx |-> 1,
     view |-> ViewAt(c, topic),
     pid |-> "", subCfg |-> Null, v |-> Null, storeThis |-> FALSE,
     prev |-> [lastState |-> "normal", lastTs |-> 0], state |-> "normal",
     deadbandStore |-> FALSE, written |-> FALSE,
     nowMs |-> 0, lookup |-> "none", tokens |-> << >>, invalid |-> << >>, sendRes |-> NoSend]

Resume(h, r) ==
    /\ handlers' = [handlers EXCEPT ![h] = r.h]
    /\ lastAlertState' = r.las

\* the documents the devices collection can hold (one per token and user at a
\* time), in the order a find returns them
DeviceOrder ==
    <<[token |-> "T1", projectId |-> "null", userId |-> "u1"],
      [token |-> "T1", projectId |-> "e1", userId |-> "u1"],
      [token |-> "T1", projectId |-> "e1", userId |-> "u2"],
      [token |-> "T2", projectId |-> "e2", userId |-> "u1"],
      [token |-> "T2", projectId |-> "e1", userId |-> "u1"]>>

DevicesFoundAnyScope(projectId) ==
    LET Stored(d) == d \in devices
    IN  SelectSeq(DeviceOrder, Stored)

\* find({ $or: [{ projectId }, { projectId: null }] }).toArray()
DevicesFound(projectId) ==
    LET Match(d) == d \in devices /\ d.projectId \in {projectId, "null"}
    IN  SelectSeq(DeviceOrder, Match)

\* devices.map(d => d.token).filter(Boolean)
TruthyTokens(found) ==
    LET Truthy(t) == t # ""
    IN  SelectSeq([i \in 1..Len(found) |-> found[i].token], Truthy)

RECURSIVE ArrayFromSet(_)
\* Array.from(new Set(array)): the first occurrence of each element, in order
ArrayFromSet(array) ==
    IF array = << >> THEN << >>
    ELSE AddToSet(ArrayFromSet(SubSeq(array, 1, Len(array) - 1)), array[Len(array)])

TokensForNoDedupe(projectId) == TruthyTokens(DevicesFound(projectId))

\* const tokens = Array.from(new Set(devices.map(d => d.token).filter(Boolean)))
TokensFor(projectId) == ArrayFromSet(TruthyTokens(DevicesFound(projectId)))

\* what admin.messaging().sendEachForMulticast does with a call
TransportOutcomes == {"delivered", "unregFirst", "unregAll", "otherError", "throws"}

\* res.responses: one entry per token, in the order of the tokens
Responses(transport, tokens) ==
    [i \in 1..Len(tokens) |->
        IF transport = "unregAll" \/ (transport = "unregFirst" /\ i = 1) THEN "unregistered"
        ELSE IF transport = "otherError" THEN "other"
        ELSE "ok"]

sendToTokensUnguarded(initialized, tokens, transport) ==
    IF transport = "throws"
    THEN [ok |-> FALSE, called |-> TRUE, threw |-> TRUE, transport |-> transport,
          responses |-> << >>]
    ELSE [ok |-> TRUE, called |-> TRUE, threw |-> FALSE, transport |-> transport,
          responses |-> Responses(transport, tokens)]

\* fcm.js sendToTokens.  ok and responses are the returned value; called tells
\* whether sendEachForMulticast was called and transport what it did; threw
\* tells whether the promise sendToTokens returns rejects.
sendToTokens(initialized, tokens, transport) ==
    IF ~initialized \/ Len(tokens) = 0
    THEN [ok |-> FALSE, called |-> FALSE, threw |-> FALSE, transport |-> "none",
          responses |-> << >>]
    ELSE IF transport = "throws"
         THEN [ok |-> FALSE, called |-> TRUE, threw |-> FALSE, transport |-> transport,
               responses |-> << >>]
         ELSE [ok |-> TRUE, called |-> TRUE, threw |-> FALSE, transport |-> transport,
               responses |-> Responses(transport, tokens)]

collectInvalidTokensAnyError(sendRes, tokens) ==
    IF ~sendRes.ok \/ Len(sendRes.responses) = 0 THEN << >>
    ELSE LET Bad(i) == i <= Len(tokens) /\ sendRes.responses[i] # "ok"
             idx == SelectSeq([i \in 1..Len(sendRes.responses) |-> i], Bad)
         IN  [k \in 1..Len(idx) |-> tokens[idx[k]]]

collectInvalidTokensNone(sendRes, tokens) == << >>

\* _collectInvalidTokens(sendRes, tokens)
collectInvalidTokens(sendRes, tokens) ==
    IF ~sendRes.ok \/ Len(sendRes.responses) = 0 THEN << >>
    ELSE LET Bad(i) == /\ i <= Len(tokens)
                       /\ sendRes.responses[i] = "unregistered"
                       /\ tokens[i] # ""
             idx == SelectSeq([i \in 1..Len(sendRes.responses) |-> i], Bad)
         IN  [k \in 1..Len(idx) |-> tokens[idx[k]]]

Range(seq) == {seq[i] : i \in 1..Len(seq)}

\* the reading timestamps (payload field ts) of the last two alert pushes of a project
Emit(log, loc) ==
    [log EXCEPT ![loc.pid] = IF Len(@) < 2 THEN Append(@, loc.nowMs) ELSE <<@[2], loc.nowMs>>]

\* Scenario A of the specification: readings 1.05, 0.95, 1.05 one after the other
ScenarioA == <<2100, 1900, 2100>>

ScenarioStep(pos, raw, serial) ==
    IF pos >= 0 /\ pos < Len(ScenarioA) /\ serial /\ raw = ScenarioA[pos + 1] THEN pos + 1 ELSE -1

\* An MQTT message arrives on live connection c.
Message(h, c, topic, raw) ==
    /\ ~Active(h)
    /\ c \in DOMAIN entries /\ ~entries[c].ended
    /\ Len(TopicProjects(c, topic)) > 0
    /\ Resume(h, LoopFrom(NewInvocation(c, topic, raw), lastAlertState))
    /\ scenario' = ScenarioStep(scenario, raw, \A g \in Handlers : ~Active(g))
    /\ UNCHANGED <<projects, mirror, devices, readings, fcmEnabled, clients, entries,
                   currentSubs, lastStoredReading, emitted, clock, refreshers, bridge>>

UncaughtInLoop(ok, next) ==
    IF ok THEN next ELSE [h |-> IdleHandler, las |-> next.las]

\* try { await ... } catch { } around each awaited call of the loop body: when
\* the call rejects (~ok) the error is caught there and the handler goes on
\* with next, as it does when the call resolves
Caught(ok, next) == next

\* The database runs the find of a handler awaiting deviceCursor.toArray();
\* the documents reach the handler at FindDone.
FindRead(h) ==
    /\ handlers[h].pc = "find"
    /\ handlers[h].lookup = "none"
    /\ handlers' = [handlers EXCEPT ![h] = [@ EXCEPT !.lookup = "read", !.tokens = TokensFor(handlers[h].pid)]]
    /\ UNCHANGED <<projects, mirror, devices, readings, fcmEnabled, clients, entries,
                   currentSubs, lastAlertState, lastStoredReading, emitted, clock,
                   refreshers, scenario, bridge>>

\* A PUBLISH packet for topic reaches live connection c; its 'message'
\* listener has not run yet.
Arrive(h, c, topic, raw) ==
    /\ ~Active(h)
    /\ c \in DOMAIN entries /\ ~entries[c].ended
    /\ Len(TopicProjects(c, topic)) > 0
    /\ handlers' = [handlers EXCEPT ![h] = NewInvocation(c, topic, raw)]
    /\ UNCHANGED <<projects, mirror, devices, readings, fcmEnabled, clients, entries,
                   currentSubs, lastAlertState, lastStoredReading, emitted, clock,
                   refreshers, scenario, bridge>>

\* The 'message' listener runs from its first line up to its first await, or
\* to its end ("ended": it returned without awaiting anything).
Run(h) ==
    /\ handlers[h].pc = "start"
    /\ LET r == LoopFrom(handlers[h], lastAlertState)
       IN  IF r.h = IdleHandler
           THEN Resume(h, [r EXCEPT !.h = [handlers[h] EXCEPT !.pc = "ended"]])
           ELSE Resume(h, r)
    /\ UNCHANGED <<projects, mirror, devices, readings, fcmEnabled, clients, entries,
                   currentSubs, lastStoredReading, emitted, clock, refreshers, scenario, bridge>>

\* The emitter drops the settled promise of a listener that has ended.
Return(h) ==
    /\ handlers[h].pc = "ended"
    /\ handlers' = [handlers EXCEPT ![h] = IdleHandler]
    /\ UNCHANGED <<projects, mirror, devices, readings, fcmEnabled, clients, entries,
                   currentSubs, lastAlertState, lastStoredReading, emitted, clock,
                   refreshers, scenario, bridge>>

\* await deviceCursor.toArray() returns (ok) with the documents read, or with
\* those the store holds now when it was not read earlier, or throws; then
\* sendToTokens is called and runs up to the transport call.
FindDone(h, ok) ==
    /\ handlers[h].pc = "find"
    /\ LET loc == handlers[h]
           tokens == IF loc.lookup = "read" THEN loc.tokens ELSE TokensFor(loc.pid)
       IN  IF ok /\ Len(tokens) > 0
           THEN /\ handlers' = [handlers EXCEPT ![h] = [loc EXCEPT !.pc = "send", !.lookup = "ok", !.tokens = tokens]]
                /\ emitted' = IF sendToTokens(fcmEnabled, tokens, "delivered").called
                               THEN Emit(emitted, loc) ELSE emitted
                /\ UNCHANGED lastAlertState
           ELSE /\ Resume(h, Caught(ok, AfterNotify([loc EXCEPT !.lookup = IF ok THEN "empty" ELSE "failed",
                                                             !.tokens = << >>], lastAlertState)))
                /\ UNCHANGED emitted
    /\ scenario' = IF ok THEN scenario ELSE -1
    /\ UNCHANGED <<projects, mirror, devices, readings, fcmEnabled, clients, entries,
                   currentSubs, lastStoredReading, clock, refreshers, bridge>>

\* await sendToTokens(...) returns; const invalid = _collectInvalidTokens(res, tokens)
SendDone(h, transport) ==
    /\ handlers[h].pc = "send"
    /\ LET loc == handlers[h]
           res == sendToTokens(fcmEnabled, loc.tokens, transport)
           invalid == IF res.threw THEN << >> ELSE collectInvalidTokens(res, loc.tokens)
           loc2 == [loc EXCEPT !.sendRes = res, !.invalid = invalid]
       IN  IF Len(invalid) > 0
           THEN /\ handlers' = [handlers EXCEPT ![h] = [loc2 EXCEPT !.pc = "delete"]]
                /\ UNCHANGED lastAlertState
           ELSE Resume(h, AfterNotify(loc2, lastAlertState))
    /\ UNCHANGED <<projects, mirror, devices, readings, fcmEnabled, clients, entries,
                   currentSubs, lastStoredReading, emitted, clock, refreshers, scenario, bridge>>

\* await deleteMany({ token: { $in: invalid } }) returns (ok) or throws.
DeleteDone(h, ok) ==
    /\ handlers[h].pc = "delete"
    /\ devices' = IF ok THEN {d \in devices : d.token \notin Range(handlers[h].invalid)}
                  ELSE devices
    /\ Resume(h, Caught(ok, AfterNotify(handlers[h], lastAlertState)))
    /\ UNCHANGED <<projects, mirror, readings, fcmEnabled, clients, entries,
                   currentSubs, lastStoredReading, emitted, clock, refreshers, scenario, bridge>>

\* the token lists a caller passes to sendToTokens
CallTokens == {<< >>, <<"T1">>, <<"T1", "T2">>}

\* A call of the exported sendToTokens(tokens, payload, options) runs up to the
\* transport call or to its early return.
SendCall(h, tokens) ==
    /\ ~Active(h)
    /\ handlers' = [handlers EXCEPT ![h] =
                       [NewInvocation(0, "", Null) EXCEPT !.pc = "call", !.tokens = tokens]]
    /\ UNCHANGED <<projects, mirror, devices, readings, fcmEnabled, clients, entries,
                   currentSubs, lastAlertState, lastStoredReading, emitted, clock,
                   refreshers, scenario, bridge>>

\* The promise of that call settles with the value sendToTokens returns.
SendReturn(h, transport) ==
    /\ handlers[h].pc = "call"
    /\ handlers' = [handlers EXCEPT ![h] =
                       [@ EXCEPT !.pc = "returned",
                                 !.sendRes = sendToTokens(fcmEnabled, handlers[h].tokens, transport)]]
    /\ UNCHANGED <<projects, mirror, devices, readings, fcmEnabled, clients, entries,
                   currentSubs, lastAlertState, lastStoredReading, emitted, clock,
                   refreshers, scenario, bridge>>

\* The caller is done with the value.
SendSettled(h) ==
    /\ handlers[h].pc = "returned"
    /\ handlers' = [handlers EXCEPT ![h] = IdleHandler]
    /\ UNCHANGED <<projects, mirror, devices, readings, fcmEnabled, clients, entries,
                   currentSubs, lastAlertState, lastStoredReading, emitted, clock,
                   refreshers, scenario, bridge>>

ForcedStoreNever(storeThis, storeHistory) == storeThis

\* if (!storeThis && subCfg.storeHistory) storeThis = true;
ForcedStore(storeThis, storeHistory) ==
    IF ~storeThis /\ storeHistory THEN TRUE ELSE storeThis

\* await updateOne({ id }, { $set: { lastAlertState, lastAlertAt } }) returns or throws.
WritebackDone(h, ok) ==
    /\ handlers[h].pc = "writeback"
    /\ LET loc == handlers[h]
           forced == [loc EXCEPT !.storeThis = ForcedStore(@, loc.subCfg.storeHistory)]
       IN  /\ mirror' = IF ok /\ MapHas(projects, loc.pid)
                        THEN MapSet(mirror, loc.pid, [lastAlertState |-> loc.state, lastAlertAt |-> loc.nowMs])
                        ELSE mirror
           /\ Resume(h, Caught(ok, AfterAlert(forced, lastAlertState)))
    /\ UNCHANGED <<projects, devices, readings, fcmEnabled, clients, entries,
                   currentSubs, lastStoredReading, emitted, clock, refreshers, scenario, bridge>>

\* the documents of a project in the readings collection after an insert
\* (the model keeps the last two)
Inserted(pid, loc) ==
    LET doc == [levelMeters |-> loc.v, ts |-> loc.nowMs]
        old == IF MapHas(readings, pid) THEN readings[pid] ELSE << >>
    IN  MapSet(readings, pid, IF Len(old) < 2 THEN Append(old, doc) ELSE <<old[2], doc>>)

\* The database applies the insert of a handler awaiting insertOne; its
\* answer reaches the handler at InsertDone.
InsertWrite(h) ==
    /\ handlers[h].pc = "insert"
    /\ ~handlers[h].written
    /\ readings' = Inserted(handlers[h].pid, handlers[h])
    /\ handlers' = [handlers EXCEPT ![h] = [@ EXCEPT !.written = TRUE]]
    /\ UNCHANGED <<projects, mirror, devices, fcmEnabled, clients, entries, currentSubs,
                   lastAlertState, lastStoredReading, emitted, clock, refreshers, scenario, bridge>>

\* await insertOne(readingDoc) returns (ok) or throws.
InsertDone(h, ok) ==
    /\ handlers[h].pc = "insert"
    /\ handlers[h].written => ok
    /\ LET loc == handlers[h]
       IN  /\ readings' = IF ok /\ ~loc.written THEN Inserted(loc.pid, loc) ELSE readings
           /\ lastStoredReading' = IF ok THEN MapSet(lastStoredReading, loc.pid, [value |-> loc.v, ts |-> DateNow])
                                   ELSE lastStoredReading
           /\ Resume(h, Caught(ok, AfterStore(loc, lastAlertState)))
    /\ UNCHANGED <<projects, mirror, devices, fcmEnabled, clients, entries,
                   currentSubs, emitted, clock, refreshers, scenario, bridge>>

\* POST /register-device: updateOne({ token, userId }, { $set: doc }, { upsert: true })
RegisterDevice(doc) ==
    /\ doc.token # ""
    /\ doc \notin devices
    /\ devices' = {d \in devices : ~(d.token = doc.token /\ d.userId = doc.userId)} \cup {doc}
    /\ UNCHANGED <<projects, mirror, readings, fcmEnabled, clients, entries, currentSubs,
                   lastAlertState, lastStoredReading, emitted, clock, refreshers, handlers,
                   scenario, bridge>>

Tick ==
    /\ clock < MaxClock
    /\ clock' = clock + 1
    /\ UNCHANGED <<projects, mirror, devices, readings, fcmEnabled, clients, entries,
                   currentSubs, lastAlertState, lastStoredReading, emitted, refreshers, handlers, scenario, bridge>>


-----------------------------------------------------------------------------
(* Configuration store and subscription synchronizer                       *)

\* find({ $or: [{ storeHistory: true }, { alertsEnabled: true }] })
Relevant(doc) == doc.storeHistory \/ doc.alertsEnabled

MapProject(id, doc) ==
    [projectId |-> id,
     topic |-> doc.topic,
     broker |-> doc.broker,
     port |-> IF doc.port = Null \/ doc.port = 0 THEN 1883 ELSE doc.port,
     username |-> doc.username,
     storeHistory |-> doc.storeHistory,
     multiplier |-> IF doc.multiplier # Null THEN doc.multiplier ELSE 1,
     offset |-> IF doc.offset # Null THEN doc.offset ELSE 0,
     alertsEnabled |-> doc.alertsEnabled,
     alertLow |-> doc.alertLow,
     alertHigh |-> doc.alertHigh,
     alertCooldownSec |-> IF doc.alertCooldownSec # Null THEN doc.alertCooldownSec ELSE 1800,
     notifyOnRecover |-> doc.notifyOnRecover,
     alertHysteresisMeters |-> doc.alertHysteresisMeters,
     noiseDeadbandMeters |-> doc.noiseDeadbandMeters]

RECURSIVE ProjectsFrom(_, _)
ProjectsFrom(db, i) ==
    IF i > Len(EntitySeq) THEN << >>
    ELSE LET id == EntitySeq[i]
         IN  IF MapHas(db, id) /\ Relevant(db[id])
             THEN <<MapProject(id, db[id])>> \o ProjectsFrom(db, i + 1)
             ELSE ProjectsFrom(db, i + 1)

upsertProjectsFromDb(db) == ProjectsFrom(db, 1)

clientConfigForProject(p) ==
    LET url == IF MQTT_URL # "" THEN MQTT_URL
               ELSE IF p.broker # "" /\ p.port # 0
                    THEN "tcp://" \o p.broker \o ":" \o ToString(p.port)
                    ELSE ""
        username == IF MQTT_USERNAME # "" THEN MQTT_USERNAME ELSE p.username
    IN  IF url = "" THEN [ok |-> FALSE, key |-> "", url |-> "", username |-> ""]
        ELSE [ok |-> TRUE, key |-> url \o "::" \o username, url |-> url, username |-> username]

SubCfgOf(p, key) ==
    [topic |-> p.topic, clientKey |-> key, multiplier |-> p.multiplier, offset |-> p.offset,
     alertsEnabled |-> p.alertsEnabled, alertLow |-> p.alertLow, alertHigh |-> p.alertHigh,
     alertCooldownSec |-> p.alertCooldownSec, notifyOnRecover |-> p.notifyOnRecover,
     alertHysteresisMeters |-> p.alertHysteresisMeters,
     noiseDeadbandMeters |-> p.noiseDeadbandMeters, storeHistory |-> p.storeHistory]

\* mqtt.connect(cfg.url, {...}); clients.set(cfg.key, { client: c, topicToProjects })
NewEntry(cfg) ==
    [key |-> cfg.key, url |-> cfg.url, ended |-> FALSE, connected |-> FALSE,
     topicToProjects |-> EmptyMap, subscribedTopics |-> {},
     onConnect |-> [t \in Topics |-> 0], subscribing |-> [t \in Topics |-> 0]]

NextHandle(en) == Cardinality(DOMAIN en) + 1

Saturate(n) == IF n > MaxPending THEN MaxPending ELSE n

ShouldConnectAlways(cl, key) == TRUE

\* if (!clients.has(cfg.key)) { ... }
ShouldConnect(cl, key) == ~MapHas(cl, key)

\* for (const p of list) { requiredKeys.add(cfg.key); if (!clients.has(cfg.key)) connect }
RECURSIVE ConnectLoop(_, _, _)
ConnectLoop(list, i, st) ==
    IF i > Len(list) THEN st
    ELSE LET cfg == clientConfigForProject(list[i])
         IN  IF ~cfg.ok THEN ConnectLoop(list, i + 1, st)
             ELSE LET req == st.requiredKeys \cup {cfg.key}
                  IN  IF ShouldConnect(st.clients, cfg.key)
                      THEN LET c == NextHandle(st.entries)
                           IN  ConnectLoop(list, i + 1,
                                   [requiredKeys |-> req,
                                    clients |-> MapSet(st.clients, cfg.key, c),
                                    entries |-> MapSet(st.entries, c, NewEntry(cfg))])
                      ELSE ConnectLoop(list, i + 1, [st EXCEPT !.requiredKeys = req])

ToCloseStale(cl, requiredKeys) == {}

ToCloseChurn(cl, requiredKeys) ==
    IF \E key \in DOMAIN cl : key \notin requiredKeys THEN DOMAIN cl ELSE {}

\* the keys of: if (!requiredKeys.has(key)) { entry.client.end(true); clients.delete(key) }
ToClose(cl, requiredKeys) == {key \in DOMAIN cl : key \notin requiredKeys}

EndedDetached(entry) == entry

\* entry.client.end(true); clients.delete(key): the connection is closed for
\* good, none of its pending connect listeners or subscribe callbacks runs any
\* more, and its entry (index and subscribed topics) is no longer reachable
\* from the pool
Ended(entry) ==
    [entry EXCEPT !.ended = TRUE, !.connected = FALSE,
                  !.topicToProjects = EmptyMap, !.subscribedTopics = {},
                  !.onConnect = [t \in Topics |-> 0], !.subscribing = [t \in Topics |-> 0]]

\* The topicToProjects map of a closed connection stays in the closure of its
\* 'message' listener: invocations in flight on connection c go on reading it.
Closed(c, entry) ==
    IF \E h \in Handlers : Active(h) /\ handlers[h].conn = c
    THEN [Ended(entry) EXCEPT !.topicToProjects = entry.topicToProjects]
    ELSE Ended(entry)

CloseLoop(st) ==
    LET gone == ToClose(st.clients, st.requiredKeys)
        goneHandles == {st.clients[key] : key \in gone}
    IN  [st EXCEPT
            !.clients = [key \in (DOMAIN st.clients) \ gone |-> st.clients[key]],
            !.entries = [c \in DOMAIN st.entries |->
                            IF c \in goneHandles THEN Closed(c, st.entries[c])
                            ELSE st.entries[c]]]

IndexProjectNoSubscribe(entry, p) ==
    LET old == IF MapHas(entry.topicToProjects, p.topic) THEN entry.topicToProjects[p.topic] ELSE << >>
    IN  [entry EXCEPT !.topicToProjects = MapSet(@, p.topic, AddToSet(old, p.projectId))]

\* topicToProjects / currentSubs update and the subscribe-once block for one project
IndexProject(entry, p) ==
    LET old == IF MapHas(entry.topicToProjects, p.topic) THEN entry.topicToProjects[p.topic] ELSE << >>
        indexed == [entry EXCEPT !.topicToProjects = MapSet(@, p.topic, AddToSet(old, p.projectId))]
    IN  IF p.topic \in entry.subscribedTopics THEN indexed
        ELSE IF entry.connected
             THEN [indexed EXCEPT !.subscribing[p.topic] = Saturate(@ + 1)]
             ELSE [indexed EXCEPT !.onConnect[p.topic] = Saturate(@ + 1)]

RECURSIVE SubscribeLoop(_, _, _)
SubscribeLoop(list, i, st) ==
    IF i > Len(list) THEN st
    ELSE LET p == list[i]
             cfg == clientConfigForProject(p)
         IN  IF ~cfg.ok \/ ~MapHas(st.clients, cfg.key) THEN SubscribeLoop(list, i + 1, st)
             ELSE LET c == st.clients[cfg.key]
                  IN  SubscribeLoop(list, i + 1,
                          [st EXCEPT
                              !.entries[c] = IndexProject(@, p),
                              !.currentSubs = MapSet(@, p.projectId, SubCfgOf(p, cfg.key))])

PruneSubsNone(list, subs) == subs

\* for (const [pid] of currentSubs.entries()) { if (!list.find(...)) currentSubs.delete(pid) }
PruneSubs(list, subs) ==
    LET listed == {list[i].projectId : i \in 1..Len(list)}
    IN  [pid \in (DOMAIN subs) \cap listed |-> subs[pid]]

\* The synchronous part of refreshBridgeProjects, after the list was read:
\* the connect loop (s1), the close loop (s2), the index and subscribe loop
\* (s3) and the prune, each working on the result of the one before.
Converge(list, cl, en, subs) ==
    LET AfterPrune(s1, s3) ==
            [clients |-> s3.clients, entries |-> s3.entries,
             currentSubs |-> PruneSubs(list, s3.currentSubs),
             requiredKeys |-> s1.requiredKeys]
        Subscribed(s1, s2) ==
            {AfterPrune(s1, s3) :
                s3 \in {SubscribeLoop(list, 1, [clients |-> s2.clients, entries |-> s2.entries,
                                                 currentSubs |-> subs])}}
        ClosedThen(s1) == UNION {Subscribed(s1, s2) : s2 \in {CloseLoop(s1)}}
    IN  CHOOSE res \in UNION {ClosedThen(s1) :
                                s1 \in {ConnectLoop(list, 1, [requiredKeys |-> {}, clients |-> cl,
                                                               entries |-> en])}} : TRUE

IdleRefresher == [pc |-> "idle"]

\* const list = await upsertProjectsFromDb();  (the query is served)
RefreshRead(r) ==
    /\ refreshers[r].pc = "idle"
    /\ refreshers' = [refreshers EXCEPT ![r] = [pc |-> "apply", list |-> upsertProjectsFromDb(projects)]]
    /\ UNCHANGED <<projects, mirror, devices, readings, fcmEnabled, clients, entries,
                   currentSubs, lastAlertState, lastStoredReading, emitted, clock, handlers, scenario, bridge>>

\* the rest of refreshBridgeProjects runs to its end without an await
RefreshApply(r) ==
    /\ refreshers[r].pc = "apply"
    /\ \E res \in {Converge(refreshers[r].list, clients, entries, currentSubs)} :
           /\ Cardinality(DOMAIN res.entries) <= MaxHandles
           /\ clients' = res.clients
           /\ entries' = res.entries
           /\ currentSubs' = res.currentSubs
    /\ refreshers' = [refreshers EXCEPT ![r] = IdleRefresher]
    /\ UNCHANGED <<projects, mirror, devices, readings, fcmEnabled,
                   lastAlertState, lastStoredReading, emitted, clock, handlers, scenario, bridge>>

\* the broker accepts the connection: 'connect' fires, once-listeners call doSubscribe
BrokerConnect(c) ==
    /\ c \in DOMAIN entries /\ ~entries[c].ended /\ ~entries[c].connected
    /\ entries' = [entries EXCEPT ![c] =
                      [@ EXCEPT !.connected = TRUE,
                                !.subscribing = [t \in Topics |-> Saturate(@[t] + entries[c].onConnect[t])],
                                !.onConnect = [t \in Topics |-> 0]]]
    /\ UNCHANGED <<projects, mirror, devices, readings, fcmEnabled, clients,
                   currentSubs, lastAlertState, lastStoredReading, emitted, clock,
                   refreshers, handlers, scenario, bridge>>

\* the subscribe callback runs: err, or entry.subscribedTopics.add(p.topic)
SubscribeDone(c, topic, err) ==
    /\ c \in DOMAIN entries /\ ~entries[c].ended
    /\ entries[c].subscribing[topic] > 0
    /\ entries' = [entries EXCEPT ![c] =
                      [@ EXCEPT !.subscribing[topic] = @ - 1,
                                !.subscribedTopics = IF err THEN @ ELSE @ \cup {topic}]]
    /\ UNCHANGED <<projects, mirror, devices, readings, fcmEnabled, clients,
                   currentSubs, lastAlertState, lastStoredReading, emitted, clock,
                   refreshers, handlers, scenario, bridge>>


-----------------------------------------------------------------------------
(* Collaborator layer: POST /projects and DELETE /projects/:id             *)

Doc(topic, broker, storeHistory, alertsEnabled, low, high, cooldownSec, notifyOnRecover, hysteresis) ==
    [topic |-> topic, broker |-> broker, port |-> 1883, username |-> "",
     storeHistory |-> storeHistory, multiplier |-> 1, offset |-> 0,
     alertsEnabled |-> alertsEnabled, alertLow |-> low, alertHigh |-> high,
     alertCooldownSec |-> cooldownSec, notifyOnRecover |-> notifyOnRecover,
     alertHysteresisMeters |-> hysteresis, noiseDeadbandMeters |-> Null]

StoreDoc(topic, broker) == Doc(topic, broker, TRUE, FALSE, Null, Null, 1800, FALSE, Null)

\* what the collaborator layer may store for each project: e1 gains or loses
\* its broker, e2 changes broker or has both flags cleared
SyncDocs(id) ==
    IF id = "e1"
    THEN {StoreDoc("t1", "b1"), StoreDoc("t1", "")}
    ELSE {StoreDoc("t1", "b1"), StoreDoc("t1", "b2"),
          Doc("t1", "b1", FALSE, FALSE, Null, Null, 1800, FALSE, Null)}

PutProject(id, doc) ==
    /\ ~(MapHas(projects, id) /\ projects[id] = doc)
    /\ projects' = MapSet(projects, id, doc)
    /\ UNCHANGED <<mirror, devices, readings, fcmEnabled, clients, entries,
                   currentSubs, lastAlertState, lastStoredReading, emitted, clock,
                   refreshers, handlers, scenario, bridge>>

DeleteProject(id) ==
    /\ MapHas(projects, id)
    /\ projects' = MapDelete(projects, id)
    /\ mirror' = MapDelete(mirror, id)
    /\ UNCHANGED <<devices, readings, fcmEnabled, clients, entries,
                   currentSubs, lastAlertState, lastStoredReading, emitted, clock,
                   refreshers, handlers, scenario, bridge>>

-----------------------------------------------------------------------------
(* startBridge and the refresh timer                                       *)

Starters == {"s1", "s2"}

\* what process.env.BRIDGE_REFRESH_MS can hold; Unset is undefined
Unset == "undefined"
RefreshSettings == {Unset, "", "abc", "0", "5000", "15000", "20000", "90000"}

NaN == [nan |-> TRUE, n |-> 0]
Num(n) == [nan |-> FALSE, n |-> n]

\* Number(x) for the strings this model passes to it
NumberOf(x) ==
    CASE x = "0" -> Num(0)
      [] x = "60000" -> Num(60000)
      [] x = "5000" -> Num(5000)
      [] x = "15000" -> Num(15000)
      [] x = "20000" -> Num(20000)
      [] x = "90000" -> Num(90000)
      [] x = "" -> Num(0)
      [] OTHER -> NaN

\* x || d: undefined and the empty string are falsy
OrDefault(x, d) == IF x = Unset \/ x = "" THEN d ELSE x

\* Math.max(a, b): NaN when one argument is NaN
MathMax(a, b) ==
    IF a.nan \/ b.nan THEN NaN ELSE IF a.n >= b.n THEN a ELSE b

\* Math.max(15000, Number(process.env.BRIDGE_REFRESH_MS || 60000))
IntervalMs(setting) == MathMax(Num(15000), NumberOf(OrDefault(setting, "60000")))

TIMEOUT_MAX == 2147483647

\* the period Node's setInterval uses for a delay: a delay that is not a
\* number from 1 to TIMEOUT_MAX becomes 1 ms
TimerPeriod(delay) ==
    IF delay.nan \/ delay.n < 1 \/ delay.n > TIMEOUT_MAX THEN 1 ELSE delay.n

NotStarted ==
    [bridgeRunning |-> FALSE, timers |-> << >>, setting |-> Unset, list |-> << >>,
     calls |-> [k \in Starters |-> "idle"]]

\* if (bridgeRunning) return; bridgeRunning = true; await refreshBridgeProjects() ...
StartBridge(k) ==
    /\ bridge.calls[k] = "idle"
    /\ bridge' = IF bridge.bridgeRunning
                 THEN [bridge EXCEPT !.calls[k] = "returned"]
                 ELSE [bridge EXCEPT !.bridgeRunning = TRUE, !.calls[k] = "query"]
    /\ UNCHANGED <<projects, mirror, devices, readings, fcmEnabled, clients, entries,
                   currentSubs, lastAlertState, lastStoredReading, emitted, clock,
                   refreshers, handlers, scenario>>

\* the awaits of the first refresh (getDb, the project query) settle: the list
\* arrives, or the call rejects and startBridge rejects with it
StartQuery(k, ok) ==
    /\ bridge.calls[k] = "query"
    /\ bridge' = IF ok
                 THEN [bridge EXCEPT !.calls[k] = "apply", !.list = upsertProjectsFromDb(projects)]
                 ELSE [bridge EXCEPT !.calls[k] = "rejected"]
    /\ UNCHANGED <<projects, mirror, devices, readings, fcmEnabled, clients, entries,
                   currentSubs, lastAlertState, lastStoredReading, emitted, clock,
                   refreshers, handlers, scenario>>

\* the first refresh applies its list and startBridge goes on to
\* setInterval(() => refreshBridgeProjects().catch(() => {}), intervalMs)
StartArm(k) ==
    /\ bridge.calls[k] = "apply"
    /\ \E res \in {Converge(bridge.list, clients, entries, currentSubs)} :
           /\ Cardinality(DOMAIN res.entries) <= MaxHandles
           /\ clients' = res.clients
           /\ entries' = res.entries
           /\ currentSubs' = res.currentSubs
    /\ bridge' = [bridge EXCEPT !.calls[k] = "returned", !.list = << >>,
                                !.timers = Append(@, TimerPeriod(IntervalMs(bridge.setting)))]
    /\ UNCHANGED <<projects, mirror, devices, readings, fcmEnabled,
                   lastAlertState, lastStoredReading, emitted, clock, refreshers, handlers, scenario>>

\* an armed timer fires and its refresh obtains the list
TimerRefresh(r) ==
    /\ Len(bridge.timers) > 0
    /\ RefreshRead(r)

-----------------------------------------------------------------------------
(* Specification of the synchronizer: the process starts with an empty     *)
(* pool; the configuration store changes while refreshes run.              *)

Init ==
    /\ projects = EmptyMap
    /\ mirror = EmptyMap
    /\ devices = {}
    /\ readings = EmptyMap
    /\ fcmEnabled = TRUE
    /\ clients = EmptyMap
    /\ entries = EmptyMap
    /\ currentSubs = EmptyMap
    /\ lastAlertState = EmptyMap
    /\ lastStoredReading = EmptyMap
    /\ emitted = [id \in Entities |-> << >>]
    /\ clock = 0
    /\ refreshers = [r \in Refreshers |-> IdleRefresher]
    /\ handlers = [h \in Handlers |-> IdleHandler]
    /\ scenario = 0
    /\ bridge = NotStarted

Next ==
    \/ \E id \in Entities : \E doc \in SyncDocs(id) : PutProject(id, doc)
    \/ \E id \in Entities : DeleteProject(id)
    \/ \E r \in Refreshers : RefreshRead(r)
    \/ \E r \in Refreshers : RefreshApply(r)

Spec == Init /\ [][Next]_vars

-----------------------------------------------------------------------------
(* Specification of the subscriptions of one connection: project e1 stays  *)
(* on topic t1 of broker b1, project e2 joins it on t1 or t2 and leaves    *)
(* again, while refreshes run, the broker accepts the connection and the   *)
(* subscribe callbacks arrive.                                             *)

SubDocs == {StoreDoc("t1", "b1"), StoreDoc("t2", "b1")}

InitSub ==
    /\ projects = [id \in {"e1"} |-> StoreDoc("t1", "b1")]
    /\ mirror = EmptyMap
    /\ devices = {}
    /\ readings = EmptyMap
    /\ fcmEnabled = TRUE
    /\ clients = EmptyMap
    /\ entries = EmptyMap
    /\ currentSubs = EmptyMap
    /\ lastAlertState = EmptyMap
    /\ lastStoredReading = EmptyMap
    /\ emitted = [id \in Entities |-> << >>]
    /\ clock = 0
    /\ refreshers = [r \in Refreshers |-> IdleRefresher]
    /\ handlers = [h \in Handlers |-> IdleHandler]
    /\ scenario = 0
    /\ bridge = NotStarted

NextSub ==
    \/ \E doc \in SubDocs : PutProject("e2", doc)
    \/ DeleteProject("e2")
    \/ \E r \in Refreshers : RefreshRead(r)
    \/ \E r \in Refreshers : RefreshApply(r)
    \/ \E c \in 1..MaxHandles : BrokerConnect(c)
    \/ \E c \in 1..MaxHandles, t \in Topics, err \in BOOLEAN : SubscribeDone(c, t, err)

SpecSub == InitSub /\ [][NextSub]_vars

\* setInterval starts a refresh again and again and the project query is
\* answered; the broker accepts a connection that is waiting, and a subscribe
\* that is requested again and again is acknowledged without error at last
FairSub ==
    /\ SpecSub
    /\ WF_vars(\E r \in Refreshers : RefreshRead(r))
    /\ WF_vars(\E r \in Refreshers : RefreshApply(r))
    /\ WF_vars(\E c \in 1..MaxHandles : BrokerConnect(c))
    /\ SF_vars(\E c \in 1..MaxHandles, t \in Topics : SubscribeDone(c, t, FALSE))

-----------------------------------------------------------------------------
(* Specification of the alert engine: the pool is synchronized with a      *)
(* fixed configuration and readings arrive on its one connection.          *)

AlertDoc(low, high, cooldownSec, notifyOnRecover, hysteresis) ==
    Doc("t1", "b1", FALSE, TRUE, low, high, cooldownSec, notifyOnRecover, hysteresis)

AlertDocs ==
    {AlertDoc(2000, 8000, 0, FALSE, 200),
     AlertDoc(2000, 8000, 1, TRUE, 200),
     AlertDoc(2000, Null, 1, TRUE, Null),
     AlertDoc(Null, 8000, 1, FALSE, 0)}

Payloads == {1900, 2100, 5000, 7900, 8100}

\* the pool after one completed refresh of configuration db, connected and acknowledged
Synced(db) ==
    LET res == Converge(upsertProjectsFromDb(db), EmptyMap, EmptyMap, EmptyMap)
        Up(e) == [e EXCEPT !.connected = TRUE,
                           !.onConnect = [t \in Topics |-> 0],
                           !.subscribedTopics = DOMAIN e.topicToProjects]
    IN  [res EXCEPT !.entries = [c \in DOMAIN res.entries |-> Up(res.entries[c])]]

InitAlert ==
    /\ \E doc \in AlertDocs :
          /\ projects = [id \in {"e1"} |-> doc]
          /\ LET res == Synced(projects)
             IN  /\ clients = res.clients
                 /\ entries = res.entries
                 /\ currentSubs = res.currentSubs
    /\ mirror = EmptyMap
    /\ devices = {[token |-> "T1", projectId |-> "null", userId |-> "u1"],
                  [token |-> "T1", projectId |-> "e1", userId |-> "u2"]}
    /\ readings = EmptyMap
    /\ fcmEnabled \in BOOLEAN
    /\ lastAlertState = EmptyMap
    /\ lastStoredReading = EmptyMap
    /\ emitted = [id \in Entities |-> << >>]
    /\ clock = 0
    /\ refreshers = [r \in Refreshers |-> IdleRefresher]
    /\ handlers = [h \in Handlers |-> IdleHandler]
    /\ scenario = 0
    /\ bridge = NotStarted

NextAlert ==
    \/ \E h \in Handlers, raw \in Payloads : Message(h, 1, "t1", raw)
    \/ \E h \in Handlers, ok \in BOOLEAN : FindDone(h, ok)
    \/ \E h \in Handlers : SendDone(h, "delivered")
    \/ \E h \in Handlers, ok \in BOOLEAN : WritebackDone(h, ok)
    \/ Tick

SpecAlert == InitAlert /\ [][NextAlert]_vars

-----------------------------------------------------------------------------
(* Specification of the history store: one project with storeHistory on a  *)
(* synchronized pool; readings around 2.000 m arrive, with or without an  *)
(* alert threshold inside the deadband.                                    *)

StoreCfg(alertsEnabled, low, deadband) ==
    [Doc("t1", "b1", TRUE, alertsEnabled, low, Null, 0, FALSE, Null)
        EXCEPT !.noiseDeadbandMeters = deadband]

\* deadband 5 mm and no alerts; alert below 2.0015 m with the default deadband
StoreDocs == {StoreCfg(FALSE, Null, 10), StoreCfg(TRUE, 4003, Null)}

\* 2.000, 2.0025 and 2.004 m
StorePayloads == {4000, 4005, 4008}

InitStore ==
    /\ \E doc \in StoreDocs :
          /\ projects = [id \in {"e1"} |-> doc]
          /\ LET res == Synced(projects)
             IN  /\ clients = res.clients
                 /\ entries = res.entries
                 /\ currentSubs = res.currentSubs
    /\ mirror = EmptyMap
    /\ devices = {[token |-> "T1", projectId |-> "null", userId |-> "u1"]}
    /\ readings = EmptyMap
    /\ fcmEnabled \in BOOLEAN
    /\ lastAlertState = EmptyMap
    /\ lastStoredReading = EmptyMap
    /\ emitted = [id \in Entities |-> << >>]
    /\ clock = 0
    /\ refreshers = [r \in Refreshers |-> IdleRefresher]
    /\ handlers = [h \in Handlers |-> IdleHandler]
    /\ scenario = -1
    /\ bridge = NotStarted

NextStore ==
    \/ \E h \in Handlers, raw \in StorePayloads : Message(h, 1, "t1", raw)
    \/ \E h \in Handlers, ok \in BOOLEAN : FindDone(h, ok)
    \/ \E h \in Handlers : SendDone(h, "delivered")
    \/ \E h \in Handlers, ok \in BOOLEAN : WritebackDone(h, ok)
    \/ \E h \in Handlers, ok \in BOOLEAN : InsertDone(h, ok)

SpecStore == InitStore /\ [][NextStore]_vars

-----------------------------------------------------------------------------
(* Specification of push dispatch: one alerting project without cooldown   *)
(* on a synchronized pool, so that every crossing and every recovery is    *)
(* pushed; device tokens are registered while readings are handled.        *)

PushDoc == AlertDoc(2000, Null, 0, TRUE, Null)

\* 0.95 m and 1.05 m, below and above alertLow = 1.000 m
PushPayloads == {1900, 2100}

\* T1 registered globally by one user and for e1 by another; T2 for e2 only
PushDevices ==
    {[token |-> "T1", projectId |-> "null", userId |-> "u1"],
     [token |-> "T1", projectId |-> "e1", userId |-> "u2"],
     [token |-> "T2", projectId |-> "e2", userId |-> "u1"]}

\* bodies of POST /register-device: T1 again, globally; T2 moved to e1
PushRegistrations ==
    {[token |-> "T1", projectId |-> "null", userId |-> "u1"],
     [token |-> "T2", projectId |-> "e1", userId |-> "u1"]}

InitPush ==
    /\ projects = [id \in {"e1"} |-> PushDoc]
    /\ LET res == Synced(projects)
       IN  /\ clients = res.clients
           /\ entries = res.entries
           /\ currentSubs = res.currentSubs
    /\ mirror = EmptyMap
    /\ devices = PushDevices
    /\ readings = EmptyMap
    /\ fcmEnabled \in BOOLEAN
    /\ lastAlertState = EmptyMap
    /\ lastStoredReading = EmptyMap
    /\ emitted = [id \in Entities |-> << >>]
    /\ clock = 0
    /\ refreshers = [r \in Refreshers |-> IdleRefresher]
    /\ handlers = [h \in Handlers |-> IdleHandler]
    /\ scenario = -1
    /\ bridge = NotStarted

NextPush ==
    \/ \E h \in Handlers, raw \in PushPayloads : Message(h, 1, "t1", raw)
    \/ \E h \in Handlers : FindRead(h)
    \/ \E h \in Handlers, ok \in BOOLEAN : FindDone(h, ok)
    \/ \E h \in Handlers, transport \in TransportOutcomes : SendDone(h, transport)
    \/ \E h \in Handlers, ok \in BOOLEAN : DeleteDone(h, ok)
    \/ \E h \in Handlers, ok \in BOOLEAN : WritebackDone(h, ok)
    \/ \E doc \in PushRegistrations : RegisterDevice(doc)
    \/ \E h \in Handlers, tokens \in CallTokens : SendCall(h, tokens)
    \/ \E h \in Handlers, transport \in TransportOutcomes : SendReturn(h, transport)
    \/ \E h \in Handlers : SendSettled(h)

SpecPush == InitPush /\ [][NextPush]_vars

-----------------------------------------------------------------------------
(* Specification of a message routed to two projects: e1 and e2 share      *)
(* topic t1 on one connection; e1 stores and alerts without cooldown, e2   *)
(* stores every reading (deadband 0).  Every awaited call may fail.        *)

BatchDoc(id) ==
    IF id = "e1"
    THEN Doc("t1", "b1", TRUE, TRUE, 2000, Null, 0, TRUE, Null)
    ELSE StoreCfg(FALSE, Null, 0)

\* 0.95 m, below alertLow = 1.000 m, and a body without a numeric literal
BatchPayloads == {1900, Null}

BatchTransports == {"delivered", "unregFirst", "throws"}

InitBatch ==
    /\ projects = [id \in Entities |-> BatchDoc(id)]
    /\ LET res == Synced(projects)
       IN  /\ clients = res.clients
           /\ entries = res.entries
           /\ currentSubs = res.currentSubs
    /\ mirror = EmptyMap
    /\ devices = {[token |-> "T1", projectId |-> "null", userId |-> "u1"]}
    /\ readings = EmptyMap
    /\ fcmEnabled = TRUE
    /\ lastAlertState = EmptyMap
    /\ lastStoredReading = EmptyMap
    /\ emitted = [id \in Entities |-> << >>]
    /\ clock = 0
    /\ refreshers = [r \in Refreshers |-> IdleRefresher]
    /\ handlers = [h \in Handlers |-> IdleHandler]
    /\ scenario = -1
    /\ bridge = NotStarted

NextBatch ==
    \/ \E h \in Handlers, raw \in BatchPayloads : Arrive(h, 1, "t1", raw)
    \/ \E h \in Handlers : Run(h)
    \/ \E h \in Handlers : Return(h)
    \/ \E h \in Handlers, ok \in BOOLEAN : FindDone(h, ok)
    \/ \E h \in Handlers, transport \in BatchTransports : SendDone(h, transport)
    \/ \E h \in Handlers, ok \in BOOLEAN : DeleteDone(h, ok)
    \/ \E h \in Handlers, ok \in BOOLEAN : WritebackDone(h, ok)
    \/ \E h \in Handlers, ok \in BOOLEAN : InsertDone(h, ok)

SpecBatch == InitBatch /\ [][NextBatch]_vars

-----------------------------------------------------------------------------
(* Specification of routing under refreshes: e1 stores every reading of    *)
(* topic t1 on broker b1; e2 comes and goes on the same topic, on b1 or    *)
(* b2, while a refresh and a handler invocation are in flight.             *)

RouteDoc(broker, storeHistory, deadband) ==
    [Doc("t1", broker, storeHistory, FALSE, Null, Null, 0, FALSE, Null)
        EXCEPT !.noiseDeadbandMeters = deadband]

\* e2 on b1, on b1 with a 5 mm deadband, on b2, or with both flags cleared
RouteDocs ==
    {RouteDoc("b1", TRUE, 0), RouteDoc("b1", TRUE, 10), RouteDoc("b2", TRUE, 0),
     RouteDoc("b1", FALSE, 0)}

RoutePayloads == {4000}

InitRoute ==
    /\ projects = [id \in {"e1"} |-> RouteDoc("b1", TRUE, 0)]
    /\ LET res == Synced(projects)
       IN  /\ clients = res.clients
           /\ entries = res.entries
           /\ currentSubs = res.currentSubs
    /\ mirror = EmptyMap
    /\ devices = {}
    /\ readings = EmptyMap
    /\ fcmEnabled = FALSE
    /\ lastAlertState = EmptyMap
    /\ lastStoredReading = EmptyMap
    /\ emitted = [id \in Entities |-> << >>]
    /\ clock = 0
    /\ refreshers = [r \in Refreshers |-> IdleRefresher]
    /\ handlers = [h \in Handlers |-> IdleHandler]
    /\ scenario = -1
    /\ bridge = NotStarted

NextRoute ==
    \/ \E doc \in RouteDocs : PutProject("e2", doc)
    \/ DeleteProject("e2")
    \/ RefreshRead("r1")
    \/ RefreshApply("r1")
    \/ \E c \in 1..MaxHandles, raw \in RoutePayloads : Message("h1", c, "t1", raw)
    \/ \E ok \in BOOLEAN : InsertDone("h1", ok)

SpecRoute == InitRoute /\ [][NextRoute]_vars

-----------------------------------------------------------------------------
(* Specification of overlapping refreshes: the periodic refresh and POST   *)
(* /bridge/reload run while the configuration moves forward only: e2 is   *)
(* deleted and e1 moves from topic t1 to t2, each once.                   *)

ReloadDocs == {StoreDoc("t2", "b1")}

InitReload ==
    /\ projects = [id \in Entities |-> StoreDoc("t1", "b1")]
    /\ LET res == Synced(projects)
       IN  /\ clients = res.clients
           /\ entries = res.entries
           /\ currentSubs = res.currentSubs
    /\ mirror = EmptyMap
    /\ devices = {}
    /\ readings = EmptyMap
    /\ fcmEnabled = FALSE
    /\ lastAlertState = EmptyMap
    /\ lastStoredReading = EmptyMap
    /\ emitted = [id \in Entities |-> << >>]
    /\ clock = 0
    /\ refreshers = [r \in Refreshers |-> IdleRefresher]
    /\ handlers = [h \in Handlers |-> IdleHandler]
    /\ scenario = -1
    /\ bridge = NotStarted

NextReload ==
    \/ \E doc \in ReloadDocs : PutProject("e1", doc)
    \/ DeleteProject("e2")
    \/ \E r \in Refreshers : RefreshRead(r)
    \/ \E r \in Refreshers : RefreshApply(r)

SpecReload == InitReload /\ [][NextReload]_vars

-----------------------------------------------------------------------------
(* Specification of the start of the bridge: startBridge is called, once   *)
(* or twice, with some BRIDGE_REFRESH_MS setting; its first refresh        *)
(* succeeds or fails; the armed timer starts further refreshes while       *)
(* project e2 comes and goes.                                              *)

\* the document of a project stored with topic t1 on broker b1
StartDoc == StoreDoc("t1", "b1")

InitStart ==
    /\ projects = [id \in {"e1"} |-> StartDoc]
    /\ mirror = EmptyMap
    /\ devices = {}
    /\ readings = EmptyMap
    /\ fcmEnabled = FALSE
    /\ clients = EmptyMap
    /\ entries = EmptyMap
    /\ currentSubs = EmptyMap
    /\ lastAlertState = EmptyMap
    /\ lastStoredReading = EmptyMap
    /\ emitted = [id \in Entities |-> << >>]
    /\ clock = 0
    /\ refreshers = [r \in Refreshers |-> IdleRefresher]
    /\ handlers = [h \in Handlers |-> IdleHandler]
    /\ scenario = -1
    /\ \E setting \in RefreshSettings : bridge = [NotStarted EXCEPT !.setting = setting]

NextStart ==
    \/ \E k \in Starters : StartBridge(k)
    \/ \E k \in Starters, ok \in BOOLEAN : StartQuery(k, ok)
    \/ \E k \in Starters : StartArm(k)
    \/ TimerRefresh("r1")
    \/ RefreshApply("r1")
    \/ PutProject("e2", StartDoc)
    \/ DeleteProject("e2")

SpecStart == InitStart /\ [][NextStart]_vars

-----------------------------------------------------------------------------
(* Specification of one project with both thresholds: readings below,      *)
(* between and above them are handled one after the other, with history    *)
(* on or off, push enabled or not, with or without a delivery target, and  *)
(* every awaited call succeeding or failing.                               *)

\* alert below 1.000 m and above 4.000 m, cooldown 1 s, notifyOnRecover
SwingDocs == {Doc("t1", "b1", storeHistory, TRUE, 2000, 8000, 1, TRUE, Null) : storeHistory \in BOOLEAN}

\* 0.95, 2.5 and 4.05 m
SwingPayloads == {1900, 5000, 8100}

InitSwing ==
    /\ \E doc \in SwingDocs :
          /\ projects = [id \in {"e1"} |-> doc]
          /\ LET res == Synced(projects)
             IN  /\ clients = res.clients
                 /\ entries = res.entries
                 /\ currentSubs = res.currentSubs
    /\ mirror = EmptyMap
    /\ devices \in {{}, {[token |-> "T1", projectId |-> "null", userId |-> "u1"]}}
    /\ readings = EmptyMap
    /\ fcmEnabled \in BOOLEAN
    /\ lastAlertState = EmptyMap
    /\ lastStoredReading = EmptyMap
    /\ emitted = [id \in Entities |-> << >>]
    /\ clock = 0
    /\ refreshers = [r \in Refreshers |-> IdleRefresher]
    /\ handlers = [h \in Handlers |-> IdleHandler]
    /\ scenario = -1
    /\ bridge = NotStarted

NextSwing ==
    \/ \E raw \in SwingPayloads : Message("h1", 1, "t1", raw)
    \/ \E ok \in BOOLEAN : FindDone("h1", ok)
    \/ \E transport \in {"delivered", "throws"} : SendDone("h1", transport)
    \/ \E ok \in BOOLEAN : WritebackDone("h1", ok)
    \/ \E ok \in BOOLEAN : InsertDone("h1", ok)
    \/ Tick

SpecSwing == InitSwing /\ [][NextSwing]_vars

-----------------------------------------------------------------------------
(* Specification of the inserts of one project with history and no         *)
(* deadband: two invocations may await insertOne at once; the database     *)
(* applies each insert, or rejects it, and its answers arrive in any       *)
(* order.                                                                  *)

\* 2.000 m and 2.005 m
PersistPayloads == {4000, 4010}

InitPersist ==
    /\ projects = [id \in {"e1"} |-> StoreCfg(FALSE, Null, 0)]
    /\ LET res == Synced(projects)
       IN  /\ clients = res.clients
           /\ entries = res.entries
           /\ currentSubs = res.currentSubs
    /\ mirror = EmptyMap
    /\ devices = {}
    /\ readings = EmptyMap
    /\ fcmEnabled = FALSE
    /\ lastAlertState = EmptyMap
    /\ lastStoredReading = EmptyMap
    /\ emitted = [id \in Entities |-> << >>]
    /\ clock = 0
    /\ refreshers = [r \in Refreshers |-> IdleRefresher]
    /\ handlers = [h \in Handlers |-> IdleHandler]
    /\ scenario = -1
    /\ bridge = NotStarted

NextPersist ==
    \/ \E h \in Handlers, raw \in PersistPayloads : Message(h, 1, "t1", raw)
    \/ \E h \in Handlers : InsertWrite(h)
    \/ \E h \in Handlers, ok \in BOOLEAN : InsertDone(h, ok)

SpecPersist == InitPersist /\ [][NextPersist]_vars

-----------------------------------------------------------------------------
(* Specification of the deadband decision alone: the decision of the       *)
(* handler applied to every configuration, baseline and reading of a       *)
(* bounded grid, followed by the insert of the readings it keeps.          *)

DeadbandLevels == {3990, 3994, 3995, 4000, 4005, 4006, 4008, 4010}
DeadbandBaselines == {4000}
DeadbandSettings == {Null, 0, 10}

\* let storeThis = subCfg.storeHistory === true; ... if (diff < deadband) storeThis = false;
\* then (alerts disabled) if (storeThis && subCfg.storeHistory) the insert is issued
Deadband(h) ==
    /\ handlers[h].pc = "deadband"
    /\ LET loc == handlers[h]
           keep == DeadbandStore(loc.subCfg, lastStoredReading, loc.pid, loc.v)
           loc2 == [loc EXCEPT !.storeThis = keep, !.deadbandStore = keep, !.nowMs = DateNow]
       IN  handlers' = [handlers EXCEPT ![h] =
                           IF keep /\ loc.subCfg.storeHistory
                           THEN [loc2 EXCEPT !.pc = "insert"]
                           ELSE [loc2 EXCEPT !.pc = "skipped"]]
    /\ UNCHANGED <<projects, mirror, devices, readings, fcmEnabled, clients, entries,
                   currentSubs, lastAlertState, lastStoredReading, emitted, clock,
                   refreshers, scenario, bridge>>

InitDeadband ==
    /\ \E storeHistory \in BOOLEAN, deadband \in DeadbandSettings, v \in DeadbandLevels :
          /\ projects = [id \in {"e1"} |->
                            [StoreCfg(FALSE, Null, deadband) EXCEPT
                                !.storeHistory = storeHistory, !.alertsEnabled = ~storeHistory]]
          /\ LET res == Synced(projects)
             IN  /\ clients = res.clients
                 /\ entries = res.entries
                 /\ currentSubs = res.currentSubs
                 /\ handlers = [h \in Handlers |->
                                   IF h = "h1"
                                   THEN [NewInvocation(1, "t1", v) EXCEPT
                                            !.pc = "deadband", !.pid = "e1", !.v = v,
                                            !.subCfg = res.currentSubs["e1"]]
                                   ELSE IdleHandler]
    /\ lastStoredReading \in
          {EmptyMap} \cup {[id \in {"e1"} |-> [value |-> b, ts |-> 0]] : b \in DeadbandBaselines}
    /\ mirror = EmptyMap
    /\ devices = {}
    /\ readings = EmptyMap
    /\ fcmEnabled = FALSE
    /\ lastAlertState = EmptyMap
    /\ emitted = [id \in Entities |-> << >>]
    /\ clock = 0
    /\ refreshers = [r \in Refreshers |-> IdleRefresher]
    /\ scenario = -1
    /\ bridge = NotStarted

NextDeadband ==
    \/ \E h \in Handlers : Deadband(h)
    \/ \E h \in Handlers, ok \in BOOLEAN : InsertDone(h, ok)

SpecDeadband == InitDeadband /\ [][NextDeadband]_vars

\* the listener's own code runs when it is due; nothing makes the database
\* answer the insert
FairDeadband == SpecDeadband /\ WF_vars(\E h \in Handlers : Deadband(h))


-----------------------------------------------------------------------------
(* Specification of the alert evaluation alone: the state computation of   *)
(* the handler applied to every input of a bounded grid.                   *)

EvalLevels == {1900, 2000, 2100, 2200, 7800, 7900, 8000, 8100}
EvalThresholds == {Null, 2000, 8000}
EvalHystereses == {0, 200, 7000}

\* let state = 'normal'; if (prev.lastState === 'low') {...} ... if (state === 'normal') {...}
Evaluate(h) ==
    /\ handlers[h].pc = "input"
    /\ LET loc == handlers[h]
           state == EvalAlertState(loc.prev.lastState, loc.v, loc.subCfg.alertLow,
                                   loc.subCfg.alertHigh, EffectiveHysteresis(loc.subCfg))
       IN  handlers' = [handlers EXCEPT ![h] = [loc EXCEPT !.pc = "evaluated", !.state = state]]
    /\ UNCHANGED <<projects, mirror, devices, readings, fcmEnabled, clients, entries,
                   currentSubs, lastAlertState, lastStoredReading, emitted, clock,
                   refreshers, scenario, bridge>>

InitEval ==
    /\ projects = EmptyMap
    /\ mirror = EmptyMap
    /\ devices = {}
    /\ readings = EmptyMap
    /\ fcmEnabled = FALSE
    /\ clients = EmptyMap
    /\ entries = EmptyMap
    /\ currentSubs = EmptyMap
    /\ lastAlertState = EmptyMap
    /\ lastStoredReading = EmptyMap
    /\ emitted = [id \in Entities |-> << >>]
    /\ clock = 0
    /\ refreshers = [r \in Refreshers |-> IdleRefresher]
    /\ scenario = -1
    /\ bridge = NotStarted
    /\ \E prevState \in {"normal", "low", "high"}, v \in EvalLevels,
          low \in EvalThresholds, high \in EvalThresholds, hyst \in EvalHystereses \cup {Null} :
          handlers = [h \in Handlers |->
                         IF h = "h1"
                         THEN [NewInvocation(1, "t1", v) EXCEPT
                                  !.pc = "input", !.pid = "e1", !.v = v,
                                  !.prev = [lastState |-> prevState, lastTs |-> 0],
                                  !.subCfg = SubCfgOf(MapProject("e1", AlertDoc(low, high, 0, FALSE, hyst)),
                                                      "tcp://b1:1883::")]
                         ELSE IdleHandler]

NextEval == \E h \in Handlers : Evaluate(h)

SpecEval == InitEval /\ [][NextEval]_vars

-----------------------------------------------------------------------------
(* Claims                                                                  *)

\* The rule of the specification, section 4.4, steps 1-3.
RefState(prevState, v, low, high, h) ==
    LET below == low # Null /\ v < low
        above == high # Null /\ v > high
        fresh == IF below THEN "low" ELSE IF above THEN "high" ELSE "normal"
    IN  IF prevState = "low" /\ low # Null /\ (v < low \/ (h > 0 /\ v < low + h)) THEN "low"
        ELSE IF prevState = "high" /\ high # Null /\ (v > high \/ (h > 0 /\ v > high - h)) THEN "high"
        ELSE fresh

Hyst(h) == EffectiveHysteresis(handlers[h].subCfg)
Gate(h) == CooledDown(handlers[h].nowMs, handlers[h].prev.lastTs, handlers[h].subCfg)
IsCrossing(h) == handlers[h].prev.lastState = "normal" /\ handlers[h].state \in {"low", "high"}
IsRecovery(h) == handlers[h].prev.lastState \in {"low", "high"} /\ handlers[h].state = "normal"
Pushed(h) == Len(handlers[h].tokens) > 0
Decided(h) == handlers[h].pc \in {"send", "delete", "writeback"}

\* C1: for every previous state, reading, pair of thresholds (either may be
\* absent) and hysteresis h >= 0, the state the alert evaluation computes is
\* the one the reference rule gives, and an absent threshold never produces
\* its state.
C1_EvalMatchesReference ==
    \A h \in Handlers :
        handlers[h].pc = "evaluated" =>
            /\ handlers[h].state = RefState(handlers[h].prev.lastState, handlers[h].v,
                                            handlers[h].subCfg.alertLow,
                                            handlers[h].subCfg.alertHigh, Hyst(h))
            /\ handlers[h].subCfg.alertLow = Null => handlers[h].state # "low"
            /\ handlers[h].subCfg.alertHigh = Null => handlers[h].state # "high"

C1_Witness ==
    \E h \in Handlers :
        /\ handlers[h].pc = "evaluated"
        /\ handlers[h].prev.lastState = "low" /\ handlers[h].state = "low"
        /\ Hyst(h) = 200 /\ handlers[h].subCfg.alertLow = 2000 /\ handlers[h].v = 2100

\* the reading of handler h lies in the hysteresis band of the state it read
InBand(h) ==
    LET l == handlers[h].subCfg.alertLow
        u == handlers[h].subCfg.alertHigh
        v == handlers[h].v
    IN  /\ Hyst(h) > 0
        /\ \/ handlers[h].prev.lastState = "low" /\ l # Null /\ l <= v /\ v < l + Hyst(h)
           \/ handlers[h].prev.lastState = "high" /\ u # Null /\ u - Hyst(h) < v /\ v <= u

IsScenarioA(subCfg) ==
    /\ subCfg.alertLow = 2000 /\ subCfg.alertHigh = 8000
    /\ subCfg.alertHysteresisMeters = 200 /\ subCfg.alertCooldownSec = 0

RecordedState(id) == PrevAlert(lastAlertState, id).lastState

\* C2: a reading inside the hysteresis band of the recorded low (high) state
\* never leads to a push or to an update of the recorded state; and after the
\* readings 1.05, 0.95, 1.05 of Scenario A exactly one push was sent, by the
\* second reading, and the recorded state is low.
C2_NoFlappingInBand ==
    /\ \A h \in Handlers :
          handlers[h].pc \in {"find", "send", "delete", "writeback"} => ~InBand(h)
    /\ (MapHas(currentSubs, "e1") /\ IsScenarioA(currentSubs["e1"]) /\ fcmEnabled) =>
          /\ scenario = 1 => Len(emitted["e1"]) = 0 /\ RecordedState("e1") = "normal"
          /\ (scenario = 2 /\ \A h \in Handlers : ~Active(h)) =>
                Len(emitted["e1"]) = 1 /\ RecordedState("e1") = "low"
          /\ scenario = 3 =>
                /\ Len(emitted["e1"]) = 1 /\ RecordedState("e1") = "low"
                /\ \A h \in Handlers : ~Active(h)

C2_Witness ==
    /\ scenario = 3 /\ fcmEnabled /\ IsScenarioA(currentSubs["e1"])
    /\ Len(emitted["e1"]) = 1 /\ RecordedState("e1") = "low"

\* C3: two alert pushes of one entity are never less than alertCooldownSec apart.
C3_PushesCooldownApart ==
    \A id \in Entities :
        (MapHas(currentSubs, id) /\ Len(emitted[id]) = 2) =>
            Abs(emitted[id][2] - emitted[id][1]) >= CooldownMs(currentSubs[id])

\* C4: a recovery (recorded low or high, reading evaluates to normal) is
\* pushed if and only if notifyOnRecover is set and the cooldown has elapsed
\* since the recorded transition, given that the push service is enabled and
\* the target lookup resolves a token.
C4_RecoveryPushIff ==
    \A h \in Handlers :
        (Decided(h) /\ IsRecovery(h)) =>
            /\ Pushed(h) => (handlers[h].subCfg.notifyOnRecover /\ Gate(h))
            /\ (handlers[h].subCfg.notifyOnRecover /\ Gate(h) /\ fcmEnabled
                  /\ handlers[h].lookup \notin {"failed", "empty"}) => Pushed(h)

C4_Witness ==
    \E h \in Handlers :
        /\ handlers[h].pc = "writeback" /\ IsRecovery(h) /\ Pushed(h)
        /\ handlers[h].subCfg.notifyOnRecover /\ handlers[h].subCfg.alertCooldownSec > 0

\* handler h has just executed lastAlertState.set for entity id
Records(h, id) ==
    /\ handlers[h].pc # "writeback" /\ handlers'[h].pc = "writeback"
    /\ handlers'[h].pid = id
    /\ lastAlertState'[id] = [lastState |-> handlers'[h].state, lastTs |-> handlers'[h].nowMs]

GatedCrossing(loc) ==
    /\ loc.prev.lastState = "normal" /\ loc.state \in {"low", "high"}
    /\ CooledDown(loc.nowMs, loc.prev.lastTs, loc.subCfg)

GatedRecovery(loc) ==
    /\ loc.prev.lastState \in {"low", "high"} /\ loc.state = "normal"
    /\ loc.subCfg.notifyOnRecover
    /\ CooledDown(loc.nowMs, loc.prev.lastTs, loc.subCfg)

AnyRecovery(loc) ==
    loc.prev.lastState \in {"low", "high"} /\ loc.state = "normal"

AlertStateChanged(id) ==
    \/ MapHas(lastAlertState, id) # MapHas(lastAlertState', id)
    \/ MapHas(lastAlertState, id) /\ lastAlertState'[id] # lastAlertState[id]

\* C5 as claimed: the recorded AlertState changes only on a gated crossing or
\* on a recovery with notifyOnRecover set and the cooldown elapsed, and a push
\* is sent only then.
C5_ChangesOnlyWhenGated ==
    [][\A id \in Entities :
          /\ AlertStateChanged(id) =>
                \E h \in Handlers :
                    Records(h, id) /\ (GatedCrossing(handlers'[h]) \/ GatedRecovery(handlers'[h]))
          /\ emitted'[id] # emitted[id] =>
                \E h \in Handlers :
                    /\ handlers[h].pc = "find" /\ handlers'[h].pc = "send" /\ handlers[h].pid = id
                    /\ GatedCrossing(handlers[h]) \/ GatedRecovery(handlers[h])]_vars

\* C5 amended: the recorded AlertState changes only when an evaluation is,
\* against the state it read, a crossing with the cooldown elapsed or a
\* recovery (whatever notifyOnRecover and the cooldown are), and it becomes
\* that evaluation's state and time; a push is sent only on a crossing with
\* the cooldown elapsed or a recovery with notifyOnRecover set and the
\* cooldown elapsed.
C5_ChangesOnlyOnCrossingOrRecovery ==
    [][\A id \in Entities :
          /\ AlertStateChanged(id) =>
                \E h \in Handlers :
                    Records(h, id) /\ (GatedCrossing(handlers'[h]) \/ AnyRecovery(handlers'[h]))
          /\ emitted'[id] # emitted[id] =>
                \E h \in Handlers :
                    /\ handlers[h].pc = "find" /\ handlers'[h].pc = "send" /\ handlers[h].pid = id
                    /\ GatedCrossing(handlers[h]) \/ GatedRecovery(handlers[h])]_vars

C5_Witness ==
    \E h \in Handlers :
        /\ handlers[h].pc = "writeback" /\ IsRecovery(h)
        /\ ~handlers[h].subCfg.notifyOnRecover
        /\ lastAlertState[handlers[h].pid] = [lastState |-> "normal", lastTs |-> handlers[h].nowMs]

\* C6: the handling of one reading of an entity runs to completion before the
\* next reading of that entity is evaluated: no two invocations are in flight
\* on the same entity.
C6_SerialPerEntity ==
    \A g, h \in Handlers :
        (g # h /\ Active(g) /\ Active(h)) => handlers[g].pid # handlers[h].pid

-----------------------------------------------------------------------------
(* Claims about the subscription synchronizer (under Spec)                 *)

Live(en, c) == c \in DOMAIN en /\ ~en[c].ended

LiveKeys(en) == {en[c].key : c \in {d \in DOMAIN en : ~en[d].ended}}

\* the ConnectionKeys of the projects of a list that resolve to a broker URL
RequiredKeys(list) ==
    {clientConfigForProject(list[i]).key :
        i \in {j \in 1..Len(list) : clientConfigForProject(list[j]).ok}}

ListedIds(list) == {list[i].projectId : i \in 1..Len(list)}

\* refresher r runs the synchronous part of refreshBridgeProjects in this step
Completes(r) == refreshers[r].pc = "apply" /\ refreshers'[r].pc = "idle"

OneLivePerKey(cl, en) ==
    /\ \A c, d \in DOMAIN en :
          (Live(en, c) /\ Live(en, d) /\ en[c].key = en[d].key) => c = d
    /\ \A c \in DOMAIN en :
          Live(en, c) => (MapHas(cl, en[c].key) /\ cl[en[c].key] = c)

\* C7: whatever the interleaving of refreshes, the pool holds at most one live
\* connection per ConnectionKey (each live connection is the one the pool
\* holds for its key), and no step opens a connection for a key that had a
\* live connection before the step.
C7_OneLiveConnectionPerKey ==
    [][/\ \A c \in (DOMAIN entries') \ (DOMAIN entries) :
             entries'[c].key \notin LiveKeys(entries)
       /\ OneLivePerKey(clients', entries')]_vars

\* a refresh has applied (a live connection indexes a project) while the other
\* refresher holds a list that requires the same key and is about to apply it
C7_Witness ==
    \E c \in DOMAIN entries, r \in Refreshers :
        /\ Live(entries, c)
        /\ entries[c].topicToProjects # EmptyMap
        /\ refreshers[r].pc = "apply"
        /\ entries[c].key \in RequiredKeys(refreshers[r].list)
        /\ \E q \in Refreshers : q # r /\ refreshers[q].pc = "idle"

\* C8: when a refresh completes, the keys with a live connection are exactly
\* the ConnectionKeys required by the list that refresh read: the pool maps
\* exactly those keys, and every connection that was live under another key
\* is ended and no longer in the pool.
C8_ConvergesToRequiredKeys ==
    [][\A r \in Refreshers :
          Completes(r) =>
              LET req == RequiredKeys(refreshers[r].list)
              IN  /\ LiveKeys(entries') = req
                  /\ DOMAIN clients' = req
                  /\ \A c \in DOMAIN entries :
                        (Live(entries, c) /\ entries[c].key \notin req) =>
                            /\ entries'[c].ended
                            /\ \A key \in DOMAIN clients' : clients'[key] # c]_vars

\* no refresh is in flight, one connection has been ended by a completed
\* refresh and another one is live
C8_Witness ==
    /\ \A r \in Refreshers : refreshers[r].pc = "idle"
    /\ \E c, d \in DOMAIN entries : entries[c].ended /\ Live(entries, d)

\* C9: a refresh that adds or removes some ConnectionKey leaves every
\* connection whose key was in the pool before it and is required by the list
\* it read untouched: the connection is not ended, and the pool holds the same
\* handle for the key afterwards.
C9_UnaffectedConnectionsKept ==
    [][\A r \in Refreshers :
          (Completes(r) /\ DOMAIN clients' # DOMAIN clients) =>
              \A key \in (DOMAIN clients) \cap RequiredKeys(refreshers[r].list) :
                  /\ MapHas(clients', key)
                  /\ clients'[key] = clients[key]
                  /\ ~entries'[clients[key]].ended]_vars

\* a connection that indexes projects is still live after refreshes opened a
\* second connection under another key and ended it again
C9_Witness ==
    \E c, d \in DOMAIN entries :
        /\ c < d
        /\ Live(entries, c) /\ entries[c].topicToProjects # EmptyMap
        /\ entries[d].ended /\ entries[d].key # entries[c].key

\* C10: after a refresh completes, no TopicIndex set of a live connection
\* contains the id of a project that was absent from the list the refresh read.
C10_IndexOnlyListedProjects ==
    [][\A r \in Refreshers :
          Completes(r) =>
              \A c \in DOMAIN entries' :
                  Live(entries', c) =>
                      \A t \in DOMAIN entries'[c].topicToProjects :
                          \A j \in 1..Len(entries'[c].topicToProjects[t]) :
                              entries'[c].topicToProjects[t][j]
                                  \in ListedIds(refreshers[r].list)]_vars

\* the projects of a list that the refresh routes to connection key on topic t
DesiredOn(list, key, t) ==
    {list[i].projectId :
        i \in {j \in 1..Len(list) :
                  /\ clientConfigForProject(list[j]).ok
                  /\ clientConfigForProject(list[j]).key = key
                  /\ list[j].topic = t}}

\* the TopicIndex set of an entry for topic t
IndexSet(entry, t) ==
    IF MapHas(entry.topicToProjects, t)
    THEN {entry.topicToProjects[t][j] : j \in 1..Len(entry.topicToProjects[t])}
    ELSE {}

\* C11: after a refresh completes, for every live connection and every topic
\* the TopicIndex set is exactly the set of projects of the list that map to
\* that connection and name that topic.
C11_IndexEqualsDesired ==
    [][\A r \in Refreshers :
          Completes(r) =>
              \A c \in DOMAIN entries' :
                  Live(entries', c) =>
                      \A t \in Topics :
                          IndexSet(entries'[c], t)
                              = DesiredOn(refreshers[r].list, entries'[c].key, t)]_vars

\* C12: a (connection, topic) pair never has more than one subscribe request
\* outstanding or queued for the connect event, and none once the topic is
\* in the subscribed set.
C12_OneSubscribePerTopic ==
    \A c \in DOMAIN entries :
        Live(entries, c) =>
            \A t \in Topics :
                /\ entries[c].subscribing[t] + entries[c].onConnect[t] <= 1
                /\ t \in entries[c].subscribedTopics =>
                      entries[c].subscribing[t] + entries[c].onConnect[t] = 0

\* C13: after a refresh completes, a topic that no project of the list uses on
\* a live connection has no entry in that connection's TopicIndex and is not
\* in its subscribed-topic set.
C13_UnusedTopicsRemoved ==
    [][\A r \in Refreshers :
          Completes(r) =>
              \A c \in DOMAIN entries' :
                  Live(entries', c) =>
                      \A t \in Topics :
                          DesiredOn(refreshers[r].list, entries'[c].key, t) = {} =>
                              /\ ~MapHas(entries'[c].topicToProjects, t)
                              /\ t \notin entries'[c].subscribedTopics]_vars

-----------------------------------------------------------------------------
(* Claims about the reading filter and the history store                   *)

\* the effective deadband of the specification: the project's own, else 3 mm
RefDeadband(subCfg) ==
    IF subCfg.noiseDeadbandMeters # Null THEN subCfg.noiseDeadbandMeters ELSE 6

\* the reading of handler h is within the deadband of the stored baseline
WithinDeadband(h) ==
    /\ MapHas(lastStoredReading, handlers[h].pid)
    /\ Abs(handlers[h].v - lastStoredReading[handlers[h].pid].value)
          < RefDeadband(handlers[h].subCfg)

\* C14: with storeHistory enabled a reading is suppressed if and only if a
\* stored baseline exists and the reading differs from it by less than the
\* effective deadband (so the first reading is kept); and a reading whose
\* insert succeeds is the new baseline.
C14_DeadbandDecision ==
    [][/\ \A h \in Handlers :
             (handlers'[h].pc \in {"skipped", "insert"} /\ handlers'[h].subCfg.storeHistory) =>
                 (handlers'[h].pc = "skipped" <=> WithinDeadband(h)')
       /\ \A h \in Handlers :
             (/\ handlers[h].pc = "insert" /\ handlers'[h] # handlers[h]
              /\ readings' # readings) =>
                 /\ lastStoredReading'[handlers[h].pid].value = handlers[h].v
                 /\ readings'[handlers[h].pid][Len(readings'[handlers[h].pid])].levelMeters
                       = handlers[h].v]_vars

\* Scenario B: with the default deadband and baseline 2.000 m the reading
\* 2.0025 m was suppressed
C14_Witness ==
    \E h \in Handlers :
        /\ handlers[h].pc = "skipped" /\ handlers[h].v = 4005
        /\ handlers[h].subCfg.storeHistory /\ handlers[h].subCfg.noiseDeadbandMeters = Null
        /\ MapHas(lastStoredReading, "e1") /\ lastStoredReading["e1"].value = 4000

\* every reading the project can receive differs from every other by less
\* than its deadband, and no alert transition can occur
AllWithinDeadband(subCfg) ==
    /\ subCfg.storeHistory /\ ~subCfg.alertsEnabled
    /\ \A v, w \in StorePayloads : Abs(v - w) < RefDeadband(subCfg)

\* C15: of readings that pairwise differ by less than the deadband, with no
\* alert transition among them, only the first one is persisted.
C15_OnlyFirstPersisted ==
    \A id \in DOMAIN currentSubs :
        (AllWithinDeadband(currentSubs[id]) /\ MapHas(readings, id)) =>
            Len(readings[id]) <= 1

\* handler h recorded an alert transition for its reading
RecordedTransition(loc) ==
    /\ loc.subCfg.alertsEnabled
    /\ \/ loc.prev.lastState = "normal" /\ loc.state \in {"low", "high"}
          /\ (loc.nowMs - loc.prev.lastTs) >= loc.subCfg.alertCooldownSec * 1000
       \/ loc.prev.lastState \in {"low", "high"} /\ loc.state = "normal"

\* C16: a reading that updates the AlertState of a project with storeHistory
\* is handed to the store even if the deadband filter had suppressed it, and
\* when its insert succeeds it is persisted and is the new baseline; a
\* reading the deadband filter suppressed is inserted only in that case.
C16_TransitionForcesStore ==
    [][\A h \in Handlers :
          /\ (/\ handlers[h].pc = "writeback" /\ handlers'[h] # handlers[h]
              /\ handlers[h].subCfg.storeHistory) =>
                handlers'[h].pc = "insert" /\ handlers'[h].v = handlers[h].v
          /\ (/\ handlers[h].pc = "insert" /\ handlers'[h] # handlers[h]
              /\ readings' # readings) =>
                /\ readings'[handlers[h].pid][Len(readings'[handlers[h].pid])].levelMeters
                      = handlers[h].v
                /\ lastStoredReading'[handlers[h].pid].value = handlers[h].v
          /\ (handlers'[h].pc = "insert" /\ ~handlers'[h].deadbandStore) =>
                RecordedTransition(handlers'[h])]_vars

\* a reading the deadband filter had suppressed was persisted after the
\* transition it caused, and is the baseline
C16_Witness ==
    /\ MapHas(readings, "e1") /\ Len(readings["e1"]) = 2
    /\ readings["e1"][1].levelMeters = 4005 /\ readings["e1"][2].levelMeters = 4000
    /\ lastStoredReading["e1"].value = 4000
    /\ RecordedState("e1") = "low"
    /\ \A h \in Handlers : ~Active(h)

-----------------------------------------------------------------------------
(* Push dispatch                                                           *)

\* the handler has resolved its target list and handed it to sendToTokens
Dispatched(h) == handlers[h].pc \in {"send", "delete"}

NoRepeat(seq) == \A i, j \in 1..Len(seq) : i # j => seq[i] # seq[j]

\* C17: the token list handed to one multicast send holds no token twice,
\* also when the token is registered globally and for the project, or by
\* several users.
C17_NoTokenTwice ==
    \A h \in Handlers : Dispatched(h) => NoRepeat(handlers[h].tokens)

\* a list is dispatched for e1 while T1 is registered globally by one user and
\* for e1 by another
C17_Witness ==
    \E h \in Handlers :
       /\ handlers[h].pc = "send"
       /\ handlers[h].pid = "e1"
       /\ handlers[h].tokens = <<"T1">>
       /\ [token |-> "T1", projectId |-> "null", userId |-> "u1"] \in devices
       /\ [token |-> "T1", projectId |-> "e1", userId |-> "u2"] \in devices

\* handler h receives the documents of its find in this step
Resolves(h) ==
    /\ handlers[h].pc = "find"
    /\ handlers'[h].pc \in {"find", "send"}
    /\ handlers'[h].tokens # handlers[h].tokens

\* C20: the target list of a notification about project E holds only tokens
\* of device documents registered for E or with no project (global); a token
\* registered only for another project is not in it.
C20_OnlyScopedTargets ==
    [][\A h \in Handlers :
          Resolves(h) =>
             \A t \in Range(handlers'[h].tokens) :
                \E d \in devices : d.token = t /\ d.projectId \in {handlers[h].pid, "null"}]_vars

\* a list is dispatched for e1 without T2 while T2 is registered for e2 only
C20_Witness ==
    \E h \in Handlers :
       /\ handlers[h].pc = "send"
       /\ handlers[h].pid = "e1"
       /\ [token |-> "T2", projectId |-> "e2", userId |-> "u1"] \in devices
       /\ "T2" \notin Range(handlers[h].tokens)
       /\ "T1" \in Range(handlers[h].tokens)

StoredTokens(dev) == {d.token : d \in dev}

\* the tokens the per-token responses of a send result report as unregistered
Reported(loc) ==
    {loc.tokens[i] : i \in {k \in 1..Len(loc.sendRes.responses) :
                               loc.sendRes.responses[k] = "unregistered"}}

\* handler h takes the step after await sendToTokens
Answered(h) ==
    /\ handlers[h].pc = "send"
    /\ handlers'[h].pc \in {"delete", "writeback"}

\* handler h takes the step after await deleteMany
Pruned(h) ==
    /\ handlers[h].pc = "delete"
    /\ handlers'[h].pc # "delete"

\* C18 as stated: a token reported as unregistered is deleted from the devices
\* collection when the handler invocation is past its prune, and no list
\* dispatched holds a token that is not in the collection.
C18_DeletedByEndOfInvocation ==
    [][\A h \in Handlers :
          /\ Pruned(h) => StoredTokens(devices') \cap Range(handlers[h].invalid) = {}
          /\ (handlers[h].pc = "find" /\ handlers'[h].pc = "send")
                => Range(handlers'[h].tokens) \subseteq StoredTokens(devices)]_vars

\* C18 amended: every token the responses report as unregistered, and no
\* other, is put in the deleteMany of the same invocation; a deleteMany that
\* succeeds removes every document with such a token and one that fails
\* removes nothing; a target list read from the collection holds only tokens
\* the collection holds at the read.
C18_InvalidTokensDeleted ==
    [][\A h \in Handlers :
          /\ Answered(h) =>
                /\ Range(handlers'[h].invalid) = Reported(handlers'[h])
                /\ (handlers'[h].pc = "delete") = (Reported(handlers'[h]) # {})
          /\ Pruned(h) =>
                \/ devices' = devices
                \/ devices' = {d \in devices : d.token \notin Range(handlers[h].invalid)}
          /\ Resolves(h) => Range(handlers'[h].tokens) \subseteq StoredTokens(devices)]_vars

\* an invocation is past a successful prune of T1, reported as unregistered
C18_Witness ==
    \E h \in Handlers :
       /\ handlers[h].pc = "writeback"
       /\ handlers[h].invalid = <<"T1">>
       /\ Reported(handlers[h]) = {"T1"}
       /\ "T1" \notin StoredTokens(devices)

\* a result that reports failure as a value
FailureValue(r) == ~r.ok /\ ~r.threw

\* C19: with the push service disabled sendToTokens returns a failure value
\* without calling the transport, and the bridge sends no multicast and
\* deletes no device; a transport that throws makes sendToTokens return a
\* failure value too, and no call of sendToTokens rejects.
C19_DisabledPushIsNoOp ==
    /\ \A h \in Handlers :
          Active(h) =>
             LET r == handlers[h].sendRes
             IN  /\ ~r.threw
                 /\ r.transport = "throws" => FailureValue(r)
                 /\ (~fcmEnabled /\ handlers[h].pc = "returned")
                       => FailureValue(r) /\ ~r.called
    /\ ~fcmEnabled =>
          /\ \A id \in Entities : emitted[id] = << >>
          /\ \A h \in Handlers : handlers[h].pc \notin {"find", "send", "delete"}
          /\ StoredTokens(PushDevices) \subseteq StoredTokens(devices)

\* with the push service disabled a call with two tokens has returned and a
\* crossing of e1 is recorded with nothing sent
C19_Witness ==
    /\ ~fcmEnabled
    /\ \E h \in Handlers :
          /\ handlers[h].pc = "returned"
          /\ handlers[h].tokens = <<"T1", "T2">>
          /\ FailureValue(handlers[h].sendRes)
    /\ MapHas(lastAlertState, "e1")
    /\ lastAlertState["e1"].lastState = "low"
    /\ emitted["e1"] = << >>

-----------------------------------------------------------------------------
(* Message handling across projects and refreshes                          *)

\* handler h takes a step of the invocation it is in
Steps(h) == Active(h) /\ handlers'[h] # handlers[h]

\* C21: for a message routed to e1 and e2, whatever fails for e1 (target
\* lookup, push, prune, write-back or insert), the invocation does not end
\* before e2 is evaluated and handed to the insert; a handler step closes no
\* connection.
C21_FailureDoesNotAbortBatch ==
    [][\A h \in Handlers :
          (Steps(h) /\ handlers[h].raw # Null /\ handlers[h].pid # "e2") =>
             /\ handlers'[h].pc # "idle"
             /\ \/ handlers'[h].pid = "e1"
                \/ /\ handlers'[h].pid = "e2"
                   /\ handlers'[h].pc = "insert"
                   /\ handlers'[h].v = handlers[h].raw
             /\ clients' = clients
             /\ \A c \in DOMAIN entries : entries'[c].ended = entries[c].ended]_vars

\* e2's reading waits for its insert after e1's crossing was recorded while
\* no push went out, the write-back failed and e1's reading was not stored
C21_Witness ==
    \E h \in Handlers :
       /\ Active(h)
       /\ handlers[h].pid = "e2"
       /\ handlers[h].pc = "insert"
       /\ MapHas(lastAlertState, "e1")
       /\ emitted["e1"] = << >>
       /\ ~MapHas(mirror, "e1")
       /\ ~MapHas(readings, "e1")
       /\ ~MapHas(readings, "e2")

\* the stores and maps a reading can change
Effects == <<readings, emitted, lastAlertState, lastStoredReading, devices, mirror>>

\* C22: a message whose body holds no numeric literal is dropped for every
\* project of its topic: the listener ends without awaiting anything and
\* leaves readings, pushes, lastAlertState, lastStoredReading, devices and
\* the alert mirror as they were.
C22_UnparsableMessageChangesNothing ==
    [][\A h \in Handlers :
          (Steps(h) /\ handlers[h].pc = "start" /\ handlers[h].raw = Null) =>
             /\ handlers'[h].pc = "ended"
             /\ Effects' = Effects]_vars

\* a message without a number has been dropped on a topic of two projects,
\* one of which is in alert state low and has a stored baseline
C22_Witness ==
    \E h \in Handlers :
       /\ handlers[h].pc = "ended"
       /\ handlers[h].raw = Null
       /\ TopicProjects(handlers[h].conn, handlers[h].topic) = <<"e1", "e2">>
       /\ MapHas(lastAlertState, "e1")
       /\ MapHas(lastStoredReading, "e2")

Awaiting(h) == handlers[h].pc \in {"find", "send", "delete", "writeback", "insert"}

\* C23: every project an invocation evaluates, and the settings it uses for
\* it, are those of the topic index and of currentSubs as they were when the
\* message arrived.
C23_OnePointInTimeView ==
    \A h \in Handlers :
       Awaiting(h) =>
          /\ handlers[h].idx <= Len(handlers[h].view)
          /\ handlers[h].view[handlers[h].idx].pid = handlers[h].pid
          /\ handlers[h].view[handlers[h].idx].known
          /\ handlers[h].view[handlers[h].idx].subCfg = handlers[h].subCfg

\* no live connection outside the pool, and none in it twice
PoolIntact ==
    /\ \A c \in DOMAIN entries : ~entries[c].ended => \E key \in DOMAIN clients : clients[key] = c
    /\ \A k1, k2 \in DOMAIN clients : clients[k1] = clients[k2] => k1 = k2
    /\ \A key \in DOMAIN clients : entries[clients[key]].key = key /\ ~entries[clients[key]].ended

\* C24: overlapping refreshes leave the pool and the subscription map as the
\* two calls run one after the other would.  With a configuration that only
\* moves forward, calls run one after the other apply their lists in the
\* order they were read, so a change once applied to currentSubs (e2 gone, e1
\* on t2) is never undone; and the pool stays intact.
C24_OverlapIsSerializable ==
    [][/\ PoolIntact'
       /\ ~MapHas(currentSubs, "e2") => ~MapHas(currentSubs', "e2")
       /\ (MapHas(currentSubs, "e1") /\ currentSubs["e1"].topic = "t2")
             => (MapHas(currentSubs', "e1") /\ currentSubs'["e1"].topic = "t2")]_vars

\* the connections the pool holds
Pooled(cl) == {cl[key] : key \in DOMAIN cl}

\* handler h starts a new invocation in this step
Starts(h) == ~Active(h) /\ handlers'[h].pc # "idle"

\* C25: a connection a refresh closed (it is no longer in the pool) never
\* comes back into the pool, so its index is unreachable from the pool, and no
\* new invocation starts on it; a refresh that takes a connection out of the
\* pool leaves the invocations in flight on it as they are.
C25_ClosedConnectionStartsNothing ==
    [][/\ \A c \in DOMAIN entries :
             c \notin Pooled(clients) =>
                 /\ c \notin Pooled(clients')
                 /\ entries'[c].ended
                 /\ \A h \in Handlers : Starts(h) => handlers'[h].conn # c
       /\ \A r \in Refreshers :
             Completes(r) =>
                 /\ handlers' = handlers
                 /\ \A c \in Pooled(clients) \ Pooled(clients') : entries'[c].ended]_vars

\* an invocation is in flight on a connection a refresh has closed, while the
\* pool holds a live connection that indexes topic t1
C25_Witness ==
    /\ \E h \in Handlers :
          Active(h) /\ handlers[h].conn \notin Pooled(clients) /\ entries[handlers[h].conn].ended
    /\ \E c \in Pooled(clients) : Len(TopicProjects(c, "t1")) > 0

\* the stored projects the query { $or: [storeHistory, alertsEnabled] } matches
Wanted(db) == {id \in DOMAIN db : db[id].storeHistory \/ db[id].alertsEnabled}

\* handler h takes up a project in this step: it evaluates the reading for it
\* and waits for one of its awaited calls
Evaluates(h) ==
    /\ handlers'[h].pc \in {"find", "send", "delete", "writeback", "insert"}
    /\ \/ ~Active(h)
       \/ Active(h) /\ handlers'[h].idx # handlers[h].idx

\* C27: the list a refresh reads holds exactly the projects with storeHistory
\* or alertsEnabled; when a refresh completes, currentSubs holds only projects
\* of its list, and nothing else changes currentSubs; and a handler takes up a
\* project only if currentSubs holds it.  So a message evaluates, stores or
\* notifies nothing for a project the last completed refresh did not obtain.
C27_OnlyProjectsOfLastRefresh ==
    [][/\ \A r \in Refreshers :
             (refreshers[r].pc = "idle" /\ refreshers'[r].pc = "apply") =>
                 ListedIds(refreshers'[r].list) = Wanted(projects)
       /\ \A r \in Refreshers :
             Completes(r) => DOMAIN currentSubs' \subseteq ListedIds(refreshers[r].list)
       /\ (\A r \in Refreshers : ~Completes(r)) => currentSubs' = currentSubs
       /\ \A h \in Handlers :
             Evaluates(h) => MapHas(currentSubs, handlers'[h].pid)]_vars

\* a message arrived on a topic whose index still names e2 after a refresh
\* dropped e2, which is deleted or has both flags cleared, from currentSubs
C27_Witness ==
    /\ "e2" \notin Wanted(projects)
    /\ ~MapHas(currentSubs, "e2")
    /\ \E h \in Handlers :
          /\ Active(h)
          /\ \E i \in 1..Len(handlers[h].view) :
                handlers[h].view[i].pid = "e2" /\ ~handlers[h].view[i].known

\* the same pool, and for every connection the same ended flag and topic index
SamePoolAndIndexes(cl1, en1, cl2, en2) ==
    /\ cl1 = cl2
    /\ DOMAIN en1 = DOMAIN en2
    /\ \A c \in DOMAIN en1 :
          /\ en1[c].ended = en2[c].ended
          /\ en1[c].topicToProjects = en2[c].topicToProjects

\* what running the synchronous part of a refresh for list now would leave
Again(list) == Converge(list, clients, entries, currentSubs)

\* C28: when a refresh has completed, running refreshBridgeProjects again for
\* the same list opens no connection, closes none, and leaves every topic
\* index and currentSubs as the first run left them.
C28_RefreshIsIdempotent ==
    [][\A r \in Refreshers :
          Completes(r) =>
              LET again == Converge(refreshers[r].list, clients', entries', currentSubs')
              IN  /\ SamePoolAndIndexes(again.clients, again.entries, clients', entries')
                  /\ again.currentSubs = currentSubs']_vars

\* a second refresh has read the unchanged configuration and is about to run
\* on a pool that holds a connection indexing two projects under one topic,
\* after an earlier refresh closed another connection
C28_Witness ==
    \E r \in Refreshers :
       /\ refreshers[r].pc = "apply"
       /\ refreshers[r].list = upsertProjectsFromDb(projects)
       /\ Again(refreshers[r].list).currentSubs = currentSubs
       /\ SamePoolAndIndexes(Again(refreshers[r].list).clients, Again(refreshers[r].list).entries,
                             clients, entries)
       /\ \E c \in Pooled(clients), t \in Topics : Len(TopicProjects(c, t)) > 1
       /\ \E c \in DOMAIN entries : entries[c].ended

\* some connection of the pool names pid in the index of one of its topics
Indexed(cl, en, pid) ==
    \E c \in Pooled(cl) : \E t \in DOMAIN en[c].topicToProjects :
       \E j \in 1..Len(en[c].topicToProjects[t]) : en[c].topicToProjects[t][j] = pid

\* C29: when a refresh completes, a project of its list that resolves to no
\* broker URL has no currentSubs record and no entry in the topic index of a
\* connection of the pool, also when it was subscribed before.
C29_UnresolvableIsOmitted ==
    [][\A r \in Refreshers :
          Completes(r) =>
              \A i \in 1..Len(refreshers[r].list) :
                 ~clientConfigForProject(refreshers[r].list[i]).ok =>
                     /\ ~MapHas(currentSubs', refreshers[r].list[i].projectId)
                     /\ ~Indexed(clients', entries', refreshers[r].list[i].projectId)]_vars

\* the contents the configuration store can settle on in SpecSub
SubConfigs ==
    LET base == [id \in {"e1"} |-> StoreDoc("t1", "b1")]
    IN  {base} \cup {MapSet(base, "e2", doc) : doc \in SubDocs}

\* every project of db the query matches and that resolves to a broker URL has
\* a live connection under its key, which names it in the index of its topic
\* and has that topic acknowledged by the broker; every other project has no
\* currentSubs record, so that the listener skips it
Synchronized(db) ==
    /\ \A i \in 1..Len(upsertProjectsFromDb(db)) :
          LET p == upsertProjectsFromDb(db)[i]
              cfg == clientConfigForProject(p)
          IN  cfg.ok =>
                 /\ MapHas(clients, cfg.key)
                 /\ Live(entries, clients[cfg.key])
                 /\ MapHas(entries[clients[cfg.key]].topicToProjects, p.topic)
                 /\ \E j \in 1..Len(entries[clients[cfg.key]].topicToProjects[p.topic]) :
                       entries[clients[cfg.key]].topicToProjects[p.topic][j] = p.projectId
                 /\ p.topic \in entries[clients[cfg.key]].subscribedTopics
                 /\ MapHas(currentSubs, p.projectId)
    /\ \A id \in Entities \ Wanted(db) : ~MapHas(currentSubs, id)

\* C26: if the configuration store settles on some contents then, with the
\* timer, the broker's connect and its subscribe acknowledgements fair, from
\* some point on every wanted project is connected, indexed and subscribed
\* with acknowledgement, and no removed project is processed.
C26_EventuallySynchronized ==
    \A db \in SubConfigs : <>[](projects = db) => <>[]Synchronized(db)

\* e2 was subscribed on t2 and then deleted; the store holds e1 alone and the
\* bridge is synchronized with it, e2 having no currentSubs record any more
C26_Witness ==
    /\ DOMAIN projects = {"e1"}
    /\ Synchronized(projects)
    /\ \E c \in Pooled(clients) : "t2" \in entries[c].subscribedTopics
    /\ \A r \in Refreshers : refreshers[r].pc = "idle"

\* C30: an invocation that waits for the insert leaves the wait, by the
\* answer or by a timeout, also when the database never answers.
C30_AwaitIsBounded ==
    \A h \in Handlers : (handlers[h].pc = "insert") ~> (handlers[h].pc # "insert")

-----------------------------------------------------------------------------
(* Claims about the start of the bridge (under SpecStart)                  *)

\* C31: the period of every timer startBridge arms is at least 15000 ms,
\* whatever BRIDGE_REFRESH_MS holds.
C31_PeriodNotBelowFloor ==
    \A i \in 1..Len(bridge.timers) : bridge.timers[i] >= 15000

\* some call of startBridge has ended and none is in progress
StartSettled ==
    /\ \E k \in Starters : bridge.calls[k] \in {"returned", "rejected"}
    /\ \A k \in Starters : bridge.calls[k] \notin {"query", "apply"}

\* C40: once the calls of startBridge made so far have ended, exactly one
\* refresh timer is armed, also when the first refresh failed.
C40_TimerArmedOnce ==
    StartSettled => Len(bridge.timers) = 1

-----------------------------------------------------------------------------
(* Claims about the alert record and the stores (second part)              *)

\* handler h's write-back returns in this step and the project record holds
\* what h wrote
WroteBack(h) ==
    /\ handlers[h].pc = "writeback"
    /\ handlers'[h] # handlers[h]
    /\ MapHas(mirror', handlers[h].pid)
    /\ mirror'[handlers[h].pid] =
          [lastAlertState |-> handlers[h].state, lastAlertAt |-> handlers[h].nowMs]

\* C32: when a write-back has succeeded and no other write-back for the
\* project is pending, the project record's lastAlertState and lastAlertAt
\* equal the state and timestamp of the in-memory lastAlertState.
C32_MirrorFollowsAlertState ==
    [][\A h \in Handlers :
          (/\ WroteBack(h)
           /\ \A g \in Handlers \ {h} :
                 ~(handlers[g].pc = "writeback" /\ handlers[g].pid = handlers[h].pid))
          => LET pid == handlers[h].pid
             IN  /\ MapHas(lastAlertState', pid)
                 /\ mirror'[pid].lastAlertState = lastAlertState'[pid].lastState
                 /\ mirror'[pid].lastAlertAt = lastAlertState'[pid].lastTs]_vars

\* the state a reading raw evaluates to for project pid against the recorded
\* state
EvaluatesTo(pid, raw) ==
    EvalAlertState(PrevAlert(lastAlertState, pid).lastState,
                   parseNumberFromPayload(raw, currentSubs[pid]),
                   currentSubs[pid].alertLow, currentSubs[pid].alertHigh,
                   EffectiveHysteresis(currentSubs[pid]))

\* the recorded state of pid is one alert and raw evaluates to the other
Swings(pid, raw) ==
    /\ PrevAlert(lastAlertState, pid).lastState \in {"low", "high"}
    /\ EvaluatesTo(pid, raw) \in {"low", "high"}
    /\ EvaluatesTo(pid, raw) # PrevAlert(lastAlertState, pid).lastState

\* C33: a reading that evaluates to the other alert than the recorded one
\* (low recorded and high evaluated, or the reverse) starts no target lookup
\* and no send, and leaves the recorded state and timestamp and the project
\* record as they are.
C33_AlertToAlertLeavesNoTrace ==
    [][\A h \in Handlers, raw \in SwingPayloads :
          (Swings("e1", raw) /\ Message(h, 1, "t1", raw)) =>
              /\ lastAlertState' = lastAlertState
              /\ mirror' = mirror
              /\ emitted' = emitted
              /\ handlers'[h].pc \in {"idle", "insert"}]_vars

\* low is recorded and notified once, and the reading stored last is 4.05 m,
\* which evaluated to high
C33_Witness ==
    /\ MapHas(lastAlertState, "e1") /\ lastAlertState["e1"].lastState = "low"
    /\ Len(emitted["e1"]) = 1
    /\ MapHas(readings, "e1")
    /\ readings["e1"][Len(readings["e1"])].levelMeters = 8100
    /\ \A h \in Handlers : ~Active(h)

\* normal is recorded for pid and raw evaluates to an alert
Crosses(pid, raw) ==
    /\ PrevAlert(lastAlertState, pid).lastState = "normal"
    /\ EvaluatesTo(pid, raw) \in {"low", "high"}

\* the cooldown of pid has elapsed since its recorded transition
Cooled(pid) ==
    DateNow - PrevAlert(lastAlertState, pid).lastTs >= CooldownMs(currentSubs[pid])

\* C34: a crossing into alert inside the cooldown leaves the recorded state
\* (normal) and its timestamp as they are and starts no notification; a
\* crossing evaluated once the cooldown has elapsed is treated as the
\* crossing: with push enabled the notification is started for it, and
\* without push it is recorded at once with the time of the evaluation.
C34_SuppressedCrossingIsDeferred ==
    [][\A h \in Handlers, raw \in SwingPayloads :
          (Crosses("e1", raw) /\ Message(h, 1, "t1", raw)) =>
              IF ~Cooled("e1")
              THEN /\ lastAlertState' = lastAlertState
                   /\ emitted' = emitted
                   /\ mirror' = mirror
                   /\ handlers'[h].pc \in {"idle", "insert"}
              ELSE IF fcmEnabled
                   THEN /\ handlers'[h].pc = "find"
                        /\ handlers'[h].state = EvaluatesTo("e1", raw)
                        /\ handlers'[h].prev.lastState = "normal"
                   ELSE /\ handlers'[h].pc = "writeback"
                        /\ lastAlertState'["e1"] =
                              [lastState |-> EvaluatesTo("e1", raw), lastTs |-> DateNow]]_vars

\* after a recovery recorded at 1 s a reading of 0.95 m was evaluated and
\* stored in the same second, inside the cooldown; a later reading is now
\* recorded as the crossing to low at 2 s
C34_Witness ==
    /\ handlers["h1"].pc = "writeback"
    /\ handlers["h1"].prev = [lastState |-> "normal", lastTs |-> EpochSec * 1000]
    /\ handlers["h1"].state = "low"
    /\ handlers["h1"].nowMs = (EpochSec + 1) * 1000
    /\ MapHas(readings, "e1") /\ Len(readings["e1"]) = 2
    /\ readings["e1"][1] = [levelMeters |-> 5000, ts |-> EpochSec * 1000]
    /\ readings["e1"][2] = [levelMeters |-> 1900, ts |-> EpochSec * 1000]
    /\ Len(emitted["e1"]) = 2

\* C35: for a project whose storeHistory flag is false the bridge never
\* issues an insert, stores no reading and keeps no lastStoredReading,
\* whatever the deadband decides and whatever transitions are recorded.
C35_AlertOnlyIsNeverStored ==
    \A pid \in DOMAIN currentSubs :
       ~currentSubs[pid].storeHistory =>
           /\ ~MapHas(readings, pid)
           /\ ~MapHas(lastStoredReading, pid)
           /\ \A h \in Handlers : ~(handlers[h].pc = "insert" /\ handlers[h].pid = pid)

\* an alert-only project has had a crossing recorded and written back, the
\* case in which a project with history is force-stored
C35_Witness ==
    /\ ~currentSubs["e1"].storeHistory
    /\ MapHas(lastAlertState, "e1") /\ lastAlertState["e1"].lastState = "high"
    /\ MapHas(mirror, "e1") /\ mirror["e1"].lastAlertState = "high"
    /\ \A h \in Handlers : ~Active(h)

\* handler h is notifying a crossing into alert and its lookup or send
\* returns or fails in this step, ending the notification
NotificationEnds(h) ==
    /\ handlers[h].pc \in {"find", "send"}
    /\ handlers[h].prev.lastState = "normal"
    /\ handlers[h].state \in {"low", "high"}
    /\ handlers'[h] # handlers[h]
    /\ handlers'[h].pc \notin {"send", "delete"}

\* the alert recorded for pid is the state raw evaluates to
StillInAlert(pid, raw) ==
    /\ PrevAlert(lastAlertState, pid).lastState \in {"low", "high"}
    /\ EvaluatesTo(pid, raw) = PrevAlert(lastAlertState, pid).lastState

\* C36: a crossing with the cooldown elapsed is recorded with its state and
\* time whatever becomes of the notification: push disabled, no target found,
\* the lookup failing, the send failing or succeeding; its write-back, failed
\* or not, is followed by the insert of the reading when the project keeps
\* history; and further readings in that alert start no notification.
C36_RecordedWhateverTheNotification ==
    [][\A h \in Handlers :
          /\ NotificationEnds(h) =>
                /\ handlers'[h].pc = "writeback"
                /\ lastAlertState'[handlers[h].pid] =
                      [lastState |-> handlers[h].state, lastTs |-> handlers[h].nowMs]
          /\ \A raw \in SwingPayloads :
                (Crosses("e1", raw) /\ Cooled("e1") /\ ~fcmEnabled /\ Message(h, 1, "t1", raw)) =>
                    /\ handlers'[h].pc = "writeback"
                    /\ lastAlertState'["e1"] =
                          [lastState |-> EvaluatesTo("e1", raw), lastTs |-> DateNow]
          /\ (handlers[h].pc = "writeback" /\ handlers'[h] # handlers[h]
                 /\ handlers[h].subCfg.storeHistory) =>
                    /\ handlers'[h].pc = "insert"
                    /\ handlers'[h].v = handlers[h].v
          /\ \A raw \in SwingPayloads :
                (StillInAlert("e1", raw) /\ Message(h, 1, "t1", raw)) =>
                    /\ handlers'[h].pc \in {"idle", "insert"}
                    /\ emitted' = emitted]_vars

\* the send for a crossing failed as a whole; the crossing is recorded all
\* the same and its reading, which the deadband had skipped, is being stored
C36_Witness ==
    \E h \in Handlers :
       /\ handlers[h].pc = "insert"
       /\ handlers[h].sendRes.transport = "throws"
       /\ ~handlers[h].deadbandStore
       /\ handlers[h].prev.lastState = "normal"
       /\ lastAlertState[handlers[h].pid] =
             [lastState |-> handlers[h].state, lastTs |-> handlers[h].nowMs]

\* documents leave the devices collection in this step and none is added
Deletes == devices' \subseteq devices /\ devices' # devices

\* C37: documents are deleted from the devices collection only by the prune
\* of an invocation, and each deleted document holds a token that stands, in
\* the list that invocation sent, at the position of a response with an
\* unregistered error; an invocation whose send failed as a whole, or whose
\* responses are successes or other errors, goes on without a prune.
C37_OnlyUnregisteredTokensDeleted ==
    [][/\ Deletes =>
             \E h \in Handlers :
                /\ Pruned(h)
                /\ \A d \in devices \ devices' :
                      \E i \in 1..Len(handlers[h].tokens) :
                         /\ handlers[h].tokens[i] = d.token
                         /\ i <= Len(handlers[h].sendRes.responses)
                         /\ handlers[h].sendRes.responses[i] = "unregistered"
       /\ \A h \in Handlers :
             (/\ handlers[h].pc = "send" /\ handlers'[h] # handlers[h]
              /\ handlers'[h].sendRes.transport \in {"delivered", "otherError", "throws"})
             => /\ handlers'[h].pc # "delete"
                /\ handlers'[h].invalid = << >>
                /\ devices' = devices]_vars

\* two tokens were sent, the first was reported as unregistered and its
\* documents are deleted, the second is still registered
C37_Witness ==
    \E h \in Handlers :
       /\ handlers[h].pc = "writeback"
       /\ handlers[h].sendRes.transport = "unregFirst"
       /\ handlers[h].tokens = <<"T1", "T2">>
       /\ "T1" \notin StoredTokens(devices)
       /\ "T2" \in StoredTokens(devices)

\* C38: lastStoredReading is set only when an insert has succeeded, to the
\* value inserted, and so, whenever no invocation is in flight, the baseline
\* of a project is the value of the reading persisted last for it.
C38_BaselineIsLastPersisted ==
    (\A h \in Handlers : ~Active(h)) =>
        \A pid \in DOMAIN readings :
           /\ MapHas(lastStoredReading, pid)
           /\ lastStoredReading[pid].value = readings[pid][Len(readings[pid])].levelMeters

\* the list refresher r holds was read before the change that currentSubs or
\* the topic index already reflects (e2 deleted, e1 moved to t2)
ReadEarlier(r) ==
    \/ "e2" \in ListedIds(refreshers[r].list) /\ ~Indexed(clients, entries, "e2")
    \/ \E i \in 1..Len(refreshers[r].list) :
          /\ refreshers[r].list[i].projectId = "e1"
          /\ refreshers[r].list[i].topic = "t1"
          /\ MapHas(currentSubs, "e1")
          /\ currentSubs["e1"].topic = "t2"

\* C39: a refresh never applies a list read before the one already applied,
\* and a refresh that completes does not put a deleted project back into the
\* topic index of a pooled connection.
C39_NewestSnapshotWins ==
    [][\A r \in Refreshers :
          Completes(r) =>
             /\ ~ReadEarlier(r)
             /\ ~Indexed(clients, entries, "e2") => ~Indexed(clients', entries', "e2")]_vars

====
